---- MODULE Spec2Model ----
(***************************************************************************)
(* JobSphere backend: the newsletter broadcaster, the application         *)
(* controller with its soft-delete flags, and the per-entity validation   *)
(* functions, modelled over the tables users, jobs and applications.      *)
(***************************************************************************)
EXTENDS Integers, Sequences, FiniteSets, TLC

(* ------------------------------------------------------------------ *)
(* Bounds of the model                                                 *)
(* ------------------------------------------------------------------ *)
MaxJobs == 2        \* postings created by postJob in one behaviour
MaxRuns == 2        \* firings of the cron callback in one behaviour
MaxTicks == 2       \* advances of the clock in one behaviour
MaxFaults == 1      \* failed storage or mail calls in one behaviour
MaxDeletes == 1     \* postings removed by deleteJob in one behaviour
MaxReqs == 3        \* application requests received in one behaviour

(* ------------------------------------------------------------------ *)
(* Program constants                                                   *)
(* ------------------------------------------------------------------ *)
WindowHours == 24   \* INTERVAL '24 hours' of getJobsForNewsletter
TickHours == WindowHours   \* the modelled clock advances one window at a time

NULL == "<null>"

JobIds == 1..MaxJobs
RunIds == 1..MaxRuns

\* niche tags a posting can carry; "Law" is followed by nobody
JobNiches == {"IT", "Law"}

(* ------------------------------------------------------------------ *)
(* users table (rows that register has stored)                         *)
(* ------------------------------------------------------------------ *)
InitUsers ==
    [u \in {"u1", "u2", "u3", "e1"} |->
        CASE u = "u1" -> [role |-> "Job Seeker", firstNiche |-> "IT",
                          secondNiche |-> "Web", thirdNiche |-> "Ops",
                          createdAt |-> -4]
          [] u = "u2" -> [role |-> "Job Seeker", firstNiche |-> "QA",
                          secondNiche |-> "Web", thirdNiche |-> "IT",
                          createdAt |-> -3]
          [] u = "u3" -> [role |-> "Job Seeker", firstNiche |-> "ITX",
                          secondNiche |-> "it", thirdNiche |-> "QA",
                          createdAt |-> -2]
          [] u = "e1" -> [role |-> "Employer", firstNiche |-> "IT",
                          secondNiche |-> NULL, thirdNiche |-> NULL,
                          createdAt |-> -1]]

VARIABLES
    users,      \* users table: id -> row
    jobs,       \* jobs table: id -> row
    jobSeq,     \* number of job ids handed out so far
    now,        \* storage clock NOW(), in hours
    ticks,      \* number of clock advances so far
    faults,     \* number of failed storage or mail calls so far
    runs,       \* one record per firing of the cron callback
    applications,   \* applications table: id -> row
    appSeq,     \* number of application ids handed out so far
    reqs,       \* requests being served, one record per server slot
    reqCount,   \* number of requests received so far
    valKind,    \* which validation function is applied
    valInput,   \* its argument
    valPc,      \* "input" before the call, "returned" after it
    valResult,  \* what the call returned or threw
    response,       \* response to the last user or job request
    httpCount,  \* number of user and job requests received so far
    db,         \* tables of the database: name -> whether it exists, row ids
    starts,     \* number of server starts so far
    cachedPool, \* let cachedPool: 0 for null, else the number of a pool
    pools,      \* the pools created so far, each with its connections
    calls       \* the calls of executeQuery and executeTransaction

newsVars == <<users, jobs, jobSeq, now, ticks, faults, runs>>
appVars == <<applications, appSeq, reqs, reqCount>>
valVars == <<valKind, valInput, valPc, valResult>>
httpVars == <<response, httpCount>>
dbVars == <<db, starts>>
poolVars == <<cachedPool, pools, calls>>
vars == <<newsVars, appVars, valVars, httpVars, dbVars, poolVars>>

(* ------------------------------------------------------------------ *)
(* Helpers over sequences                                              *)
(* ------------------------------------------------------------------ *)
Range(s) == {s[i] : i \in DOMAIN s}

\* the orderings of the rows S that ORDER BY <key> DESC may return
OrderByDesc(S, key) ==
    {s \in [1..Cardinality(S) -> S] :
        /\ Range(s) = S
        /\ \A a, b \in 1..Cardinality(S) : a < b => key[s[a]] >= key[s[b]]}

(* ------------------------------------------------------------------ *)
(* JobModel                                                            *)
(* ------------------------------------------------------------------ *)
JobCreatedAt == [j \in DOMAIN jobs |-> jobs[j].createdAt]
UserCreatedAt == [u \in DOMAIN users |-> users[u].createdAt]

\* variant of NewsletterCandidates without the 24 hour window
NewsletterCandidatesNoWindow(t) ==
    {j \in DOMAIN jobs :
        /\ jobs[j].postedBy \in DOMAIN users
        /\ jobs[j].newsLettersSent = FALSE}

\* variant of NewsletterCandidates that skips postings a firing is handling
NewsletterCandidatesUnclaimed(t) ==
    {j \in DOMAIN jobs :
        /\ jobs[j].postedBy \in DOMAIN users
        /\ jobs[j].newsLettersSent = FALSE
        /\ jobs[j].createdAt >= t - WindowHours
        /\ \A q \in DOMAIN runs :
              runs[q].pc \in {"idle", "done"}
                \/ \A n \in DOMAIN runs[q].jobs : runs[q].jobs[n].id # j}

\* rows selected by getJobsForNewsletter at time t
NewsletterCandidates(t) ==
    {j \in DOMAIN jobs :
        /\ jobs[j].postedBy \in DOMAIN users
        /\ jobs[j].newsLettersSent = FALSE
        /\ jobs[j].createdAt >= t - WindowHours}

GetJobsForNewsletter(t) == OrderByDesc(NewsletterCandidates(t), JobCreatedAt)

\* variant of JobUpdateSent that writes nothing
JobUpdateSentNothing(j) == jobs

\* UPDATE jobs SET newsletters_sent = true WHERE id = j
JobUpdateSent(j) ==
    IF j \in DOMAIN jobs
    THEN [jobs EXCEPT ![j].newsLettersSent = TRUE]
    ELSE jobs

(* ------------------------------------------------------------------ *)
(* UserModel                                                           *)
(* ------------------------------------------------------------------ *)
NicheMatches(u, niche) ==
    \/ users[u].firstNiche = niche
    \/ users[u].secondNiche = niche
    \/ users[u].thirdNiche = niche

\* variant of UsersByJobNiche without the role condition
UsersByJobNicheAnyRole(niche) ==
    {u \in DOMAIN users : niche # NULL /\ NicheMatches(u, niche)}

UsersByJobNiche(niche) ==
    {u \in DOMAIN users :
        /\ users[u].role = "Job Seeker"
        /\ niche # NULL
        /\ NicheMatches(u, niche)}

FindByJobNiche(niche) == OrderByDesc(UsersByJobNiche(niche), UserCreatedAt)

(* ------------------------------------------------------------------ *)
(* newsLetterCron: one record per firing of the scheduled callback     *)
(* ------------------------------------------------------------------ *)
IdleRun ==
    [pc |-> "idle",          \* idle, lookup, send, mark, done
     queryAt |-> -1,         \* NOW() of the candidate query
     queryFailed |-> FALSE,
     jobs |-> <<>>,          \* const jobs
     i |-> 0,                \* position of the for-of over jobs
     filteredUsers |-> <<>>,
     k |-> 0,                \* position of the for-of over filteredUsers
     looked |-> {},          \* postings whose niche lookup was issued
     matched |-> <<>>,       \* per looked posting (by position), lookup result set
     lookupFailed |-> {},
     log |-> <<>>,           \* sendEmail calls: [job, user, ok]
     marked |-> {},          \* postings whose flag update succeeded
     updateFailed |-> {}]

CurJob(r) == runs[r].jobs[runs[r].i]

\* formatJobWithPoster: the fields of a fetched row that the callback reads
FormatJobWithPoster(j) ==
    [id |-> j, jobNiche |-> jobs[j].jobNiche, createdAt |-> jobs[j].createdAt]

\* the for-of over jobs moves to the next posting, or the callback returns
NextPosting(run) ==
    IF run.i < Len(run.jobs)
    THEN [run EXCEPT !.pc = "lookup", !.i = run.i + 1,
                     !.filteredUsers = <<>>, !.k = 0]
    ELSE [run EXCEPT !.pc = "done", !.filteredUsers = <<>>, !.k = 0]

\* variant of AfterSend in which a failed send ends the posting
AfterSendAbortOnFailure(run, ok) ==
    IF ~ok THEN NextPosting(run)
    ELSE IF run.k < Len(run.filteredUsers)
    THEN [run EXCEPT !.k = run.k + 1]
    ELSE [run EXCEPT !.pc = "mark"]

\* catch (emailError): the for-of over filteredUsers goes on
AfterSend(run, ok) ==
    IF run.k < Len(run.filteredUsers)
    THEN [run EXCEPT !.k = run.k + 1]
    ELSE [run EXCEPT !.pc = "mark"]

\* variant of AfterJobError in which the error ends the firing
AfterJobErrorAbort(run) ==
    [run EXCEPT !.pc = "done", !.filteredUsers = <<>>, !.k = 0]

\* catch (jobError): the for-of over jobs goes on
AfterJobError(run) == NextPosting(run)

\* the callback fires: getJobsForNewsletter, then the empty check
StartRun(r) ==
    /\ runs[r].pc = "idle"
    /\ \/ /\ \E fetched \in GetJobsForNewsletter(now) :
               runs' = [runs EXCEPT ![r] =
                   IF Len(fetched) = 0
                   THEN [@ EXCEPT !.pc = "done", !.queryAt = now]
                   ELSE [@ EXCEPT !.pc = "lookup", !.queryAt = now,
                                  !.jobs = [n \in DOMAIN fetched |->
                                               FormatJobWithPoster(fetched[n])],
                                  !.i = 1]]
          /\ faults' = faults
       \/ /\ faults < MaxFaults
          /\ faults' = faults + 1
          /\ runs' = [runs EXCEPT ![r] =
                 [@ EXCEPT !.pc = "done", !.queryAt = now,
                           !.queryFailed = TRUE]]
    /\ UNCHANGED <<users, jobs, jobSeq, now, ticks>>
    /\ UNCHANGED <<appVars, valVars, httpVars, dbVars, poolVars>>

\* await UserModel.findByJobNiche(job.jobNiche), then the empty check
Lookup(r) ==
    /\ runs[r].pc = "lookup"
    /\ LET job == CurJob(r)
       IN \/ /\ \E found \in FindByJobNiche(job.jobNiche) :
                  LET run == [runs[r] EXCEPT
                                 !.looked = @ \cup {job.id},
                                 !.matched = Append(@, Range(found))]
                  IN runs' = [runs EXCEPT ![r] =
                         IF Len(found) = 0
                         THEN NextPosting(run)
                         ELSE [run EXCEPT !.pc = "send",
                                          !.filteredUsers = found, !.k = 1]]
             /\ faults' = faults
          \/ /\ faults < MaxFaults
             /\ faults' = faults + 1
             /\ runs' = [runs EXCEPT ![r] =
                    AfterJobError([@ EXCEPT !.looked = @ \cup {job.id},
                                            !.matched = Append(@, {}),
                                            !.lookupFailed = @ \cup {job.id}])]
    /\ UNCHANGED <<users, jobs, jobSeq, now, ticks>>
    /\ UNCHANGED <<appVars, valVars, httpVars, dbVars, poolVars>>

\* await sendEmail(...) inside its own try/catch
Send(r) ==
    /\ runs[r].pc = "send"
    /\ \E ok \in BOOLEAN :
        /\ ~ok => faults < MaxFaults
        /\ faults' = IF ok THEN faults ELSE faults + 1
        /\ LET run == runs[r]
               entry == [job |-> CurJob(r).id,
                         user |-> run.filteredUsers[run.k], ok |-> ok]
           IN runs' = [runs EXCEPT ![r] =
                  AfterSend([run EXCEPT !.log = Append(@, entry)], ok)]
    /\ UNCHANGED <<users, jobs, jobSeq, now, ticks>>
    /\ UNCHANGED <<appVars, valVars, httpVars, dbVars, poolVars>>

\* await JobModel.updateById(job.id, { newsLettersSent: true })
Mark(r) ==
    /\ runs[r].pc = "mark"
    /\ LET job == CurJob(r)
       IN \/ /\ jobs' = JobUpdateSent(job.id)
             /\ faults' = faults
             /\ runs' = [runs EXCEPT ![r] =
                    NextPosting([@ EXCEPT !.marked = @ \cup {job.id}])]
          \/ /\ faults < MaxFaults
             /\ faults' = faults + 1
             /\ jobs' = jobs
             /\ runs' = [runs EXCEPT ![r] =
                    AfterJobError([@ EXCEPT !.updateFailed = @ \cup {job.id}])]
    /\ UNCHANGED <<users, jobSeq, now, ticks>>
    /\ UNCHANGED <<appVars, valVars, httpVars, dbVars, poolVars>>

(* ------------------------------------------------------------------ *)
(* postJob (an Employer creates a posting) and the passage of time     *)
(* ------------------------------------------------------------------ *)
PostJob(u, niche) ==
    /\ users[u].role = "Employer"
    /\ jobSeq < MaxJobs
    /\ LET id == jobSeq + 1
       IN jobs' = [j \in DOMAIN jobs \cup {id} |->
                     IF j = id
                     THEN [jobNiche |-> niche, newsLettersSent |-> FALSE,
                           createdAt |-> now, postedBy |-> u]
                     ELSE jobs[j]]
    /\ jobSeq' = jobSeq + 1
    /\ UNCHANGED <<users, now, ticks, faults, runs>>
    /\ UNCHANGED <<appVars, valVars, httpVars, dbVars, poolVars>>

\* deleteJob: the owner removes the posting (DELETE FROM jobs WHERE id = j)
DeleteJob(u, j) ==
    /\ j \in DOMAIN jobs
    /\ jobs[j].postedBy = u
    /\ jobSeq - Cardinality(DOMAIN jobs) < MaxDeletes
    /\ jobs' = [x \in DOMAIN jobs \ {j} |-> jobs[x]]
    /\ UNCHANGED <<users, jobSeq, now, ticks, faults, runs>>
    /\ UNCHANGED <<appVars, valVars, httpVars, dbVars, poolVars>>

Tick ==
    /\ ticks < MaxTicks
    /\ now' = now + TickHours
    /\ ticks' = ticks + 1
    /\ UNCHANGED <<users, jobs, jobSeq, faults, runs>>
    /\ UNCHANGED <<appVars, valVars, httpVars, dbVars, poolVars>>

(* ------------------------------------------------------------------ *)
(* JavaScript values: strings are sequences of characters, integers    *)
(* are a sign and a sequence of decimal digits                         *)
(* ------------------------------------------------------------------ *)
Undefined == [t |-> "undefined"]
Str(s) == [t |-> "string", s |-> s]
Num(neg, d) == [t |-> "number", neg |-> neg, d |-> d]
NaN == [t |-> "NaN"]

DigitChars == {"0", "1", "2", "3", "4", "5", "6", "7", "8", "9"}
SpaceChars == {" "}

IsZero(v) == v.t = "number" /\ \A i \in DOMAIN v.d : v.d[i] = "0"

\* !v
Falsy(v) ==
    \/ v.t \in {"undefined", "null", "NaN"}
    \/ v.t = "string" /\ v.s = <<>>
    \/ IsZero(v)

\* v.trim().length === 0 for a string v
TrimIsEmpty(s) == \A i \in DOMAIN s : s[i] \in SpaceChars

\* first position of s that holds no white space (Len(s) + 1 if none)
FirstNonSpace(s) ==
    CHOOSE i \in 1..(Len(s) + 1) :
        /\ \A k \in 1..(i - 1) : s[k] \in SpaceChars
        /\ i = Len(s) + 1 \/ s[i] \notin SpaceChars

\* last position of the run of digits of s that starts at from
DigitRunEnd(s, from) ==
    CHOOSE e \in (from - 1)..Len(s) :
        /\ \A k \in from..e : s[k] \in DigitChars
        /\ e = Len(s) \/ s[e + 1] \notin DigitChars

StripLeadingZeros(d) ==
    LET nz == {i \in DOMAIN d : d[i] # "0"}
    IN IF nz = {} THEN <<"0">>
       ELSE LET f == CHOOSE i \in nz : \A k \in nz : i <= k
            IN SubSeq(d, f, Len(d))

\* parseInt(s) in radix 10: white space, an optional sign, then as many
\* digits as there are; NaN when there is none
ParseInt(s) ==
    LET b == FirstNonSpace(s)
        signed == b <= Len(s) /\ s[b] \in {"-", "+"}
        from == IF signed THEN b + 1 ELSE b
        e == DigitRunEnd(s, from)
    IN IF e < from THEN NaN
       ELSE LET d == StripLeadingZeros(SubSeq(s, from, e))
            IN Num(signed /\ s[b] = "-", d)

\* n.toString() of an integer below 1e21
NumToString(n) == (IF n.neg /\ ~IsZero(n) THEN <<"-">> ELSE <<>>) \o n.d

\* /^[6-9]\d{9}$/.test(s)
IndianMobile(s) ==
    /\ Len(s) = 10
    /\ s[1] \in {"6", "7", "8", "9"}
    /\ \A i \in 2..10 : s[i] \in DigitChars

\* string literals of the enumerated columns
JobSeekerStr == Str(<<"J", "o", "b", " ", "S", "e", "e", "k", "e", "r">>)
EmployerStr == Str(<<"E", "m", "p", "l", "o", "y", "e", "r">>)
FullTimeStr == Str(<<"F", "u", "l", "l", "-", "t", "i", "m", "e">>)
PartTimeStr == Str(<<"P", "a", "r", "t", "-", "t", "i", "m", "e">>)

Return(v) == [threw |-> FALSE, value |-> v]
Throw(m) == [threw |-> TRUE, message |-> m]

(* ------------------------------------------------------------------ *)
(* phoneUtils                                                          *)
(* ------------------------------------------------------------------ *)
ConvertPhoneToNumber(phone) ==
    IF Falsy(phone) THEN Throw("Phone number is required")
    ELSE LET phoneNumber == IF phone.t = "string" THEN ParseInt(phone.s)
                            ELSE phone
         IN IF phoneNumber.t = "NaN" \/ phoneNumber.neg \/ IsZero(phoneNumber)
            THEN Throw("Please provide a valid phone number (digits only)")
            ELSE IF ~IndianMobile(NumToString(phoneNumber))
            THEN Throw("Invalid Indian phone number. It must be 10 digits and start with 6, 7, 8, or 9.")
            ELSE Return(phoneNumber)

(* ------------------------------------------------------------------ *)
(* Validation functions of the models                                  *)
(* ------------------------------------------------------------------ *)
Pass == [k |-> "pass", m |-> ""]
Error(m) == [k |-> "error", m |-> m]
Raise(m) == [k |-> "throw", m |-> m]

\* errors.push for each violated rule in order; a rule that throws ends the
\* function with that exception
Collect(outs) ==
    LET thrown == {i \in DOMAIN outs : outs[i].k = "throw"}
        failed == SelectSeq(outs, LAMBDA o : o.k = "error")
    IN IF thrown # {}
       THEN [threw |-> TRUE, errors |-> <<>>,
             message |-> outs[CHOOSE i \in thrown : \A k \in thrown : i <= k].m]
       ELSE [threw |-> FALSE, message |-> "",
             errors |-> [i \in DOMAIN failed |-> failed[i].m]]

\* errors.join(", ")
RECURSIVE Join(_)
Join(errors) ==
    IF Len(errors) = 0 THEN ""
    ELSE IF Len(errors) = 1 THEN errors[1]
    ELSE errors[1] \o ", " \o Join(Tail(errors))

\* /^[^\s@]+@[^\s@]+\.[^\s@]+$/.test(v)
EmailTest(v) ==
    /\ v.t = "string"
    /\ \E a, d \in DOMAIN v.s :
          /\ 1 < a /\ a + 1 < d /\ d < Len(v.s)
          /\ v.s[a] = "@" /\ v.s[d] = "."
          /\ \A k \in DOMAIN v.s : k # a => v.s[k] \notin {"@", " "}

\* !v || v.trim().length === 0
RequiredText(v, m) ==
    IF Falsy(v) THEN Error(m)
    ELSE IF v.t # "string" THEN Raise("TypeError: trim is not a function")
    ELSE IF TrimIsEmpty(v.s) THEN Error(m)
    ELSE Pass

\* !v
RequiredValue(v, m) == IF Falsy(v) THEN Error(m) ELSE Pass

\* !v || v.length < lo || v.length > hi
LengthBetween(v, lo, hi, m) ==
    IF Falsy(v) THEN Error(m)
    ELSE IF v.t = "string" /\ (Len(v.s) < lo \/ Len(v.s) > hi) THEN Error(m)
    ELSE Pass

ValidateUserData(userData) ==
    Collect(<<
        LengthBetween(userData.name, 3, 30,
                      "Name must be between 3 and 30 characters"),
        IF Falsy(userData.email) \/ ~EmailTest(userData.email)
            THEN Error("Please provide a valid email") ELSE Pass,
        IF Falsy(userData.phone) THEN Error("Please provide a phone number")
            ELSE IF ConvertPhoneToNumber(userData.phone).threw
            THEN Error(ConvertPhoneToNumber(userData.phone).message)
            ELSE Pass,
        LengthBetween(userData.password, 8, 32,
                      "Password must be between 8 and 32 characters"),
        IF Falsy(userData.role)
              \/ userData.role \notin {JobSeekerStr, EmployerStr}
            THEN Error("Role must be either \"Job Seeker\" or \"Employer\"")
            ELSE Pass,
        IF userData.role = JobSeekerStr
              /\ (Falsy(userData.firstNiche) \/ Falsy(userData.secondNiche)
                    \/ Falsy(userData.thirdNiche))
            THEN Error("Job Seekers must provide three job niches")
            ELSE Pass
    >>)

ValidateJobData(jobData) ==
    Collect(<<
        RequiredText(jobData.title, "Job title is required"),
        IF Falsy(jobData.jobType)
              \/ jobData.jobType \notin {FullTimeStr, PartTimeStr}
            THEN Error("Job type must be either \"Full-time\" or \"Part-time\"")
            ELSE Pass,
        RequiredText(jobData.location, "Job location is required"),
        RequiredText(jobData.companyName, "Company name is required"),
        RequiredText(jobData.responsibilities,
                     "Job responsibilities are required"),
        RequiredText(jobData.qualifications, "Job qualifications are required"),
        RequiredText(jobData.salary, "Salary information is required"),
        RequiredText(jobData.jobNiche, "Job niche is required"),
        RequiredValue(jobData.postedBy, "Posted by user ID is required")
    >>)

ValidateApplicationData(applicationData) ==
    Collect(<<
        RequiredValue(applicationData.jobSeekerUserId,
                      "Job seeker user ID is required"),
        RequiredText(applicationData.jobSeekerName,
                     "Job seeker name is required"),
        IF Falsy(applicationData.jobSeekerEmail)
              \/ ~EmailTest(applicationData.jobSeekerEmail)
            THEN Error("Valid job seeker email is required") ELSE Pass,
        IF Falsy(applicationData.jobSeekerPhone)
            THEN Error("Job seeker phone is required")
            ELSE IF ConvertPhoneToNumber(applicationData.jobSeekerPhone).threw
            THEN Raise(ConvertPhoneToNumber(applicationData.jobSeekerPhone).message)
            ELSE Pass,
        RequiredText(applicationData.jobSeekerAddress,
                     "Job seeker address is required"),
        RequiredText(applicationData.coverLetter, "Cover letter is required"),
        RequiredValue(applicationData.employerUserId,
                      "Employer user ID is required"),
        RequiredValue(applicationData.jobId, "Job ID is required"),
        RequiredText(applicationData.jobTitle, "Job title is required")
    >>)

(* ------------------------------------------------------------------ *)
(* errorMiddleware                                                     *)
(* ------------------------------------------------------------------ *)
\* new ErrorHandler(message, statusCode)
ErrorHandler(message, statusCode) ==
    [code |-> "", name |-> "Error", message |-> message,
     statusCode |-> statusCode]

\* new Error(message)
PlainError(message) == ErrorHandler(message, 0)

\* messages for which includes("connection terminated"),
\* includes("Connection terminated") or includes("ECONNRESET") holds
ConnectionMessages ==
    {"Connection terminated unexpectedly", "connection terminated",
     "read ECONNRESET"}

\* variant of ErrorMiddleware in which every test looks at the error that
\* was raised, so that the last matching signature decides
ErrorMiddlewareLastWins(err) ==
    LET e0 == [err EXCEPT
                  !.statusCode = IF @ = 0 THEN 500 ELSE @,
                  !.message = IF @ = "" THEN "Internal server error." ELSE @]
        e1 == IF e0.code = "22P02"
              THEN ErrorHandler("Invalid ID format provided", 400) ELSE e0
        e2 == IF e0.code = "23505"
              THEN ErrorHandler("Duplicate entry already exists", 400) ELSE e1
        e3 == IF e0.code = "23503"
              THEN ErrorHandler("Referenced record does not exist", 400)
              ELSE e2
        e4 == IF e0.code = "23502"
              THEN ErrorHandler("Required field is missing", 400) ELSE e3
        e5 == IF e0.name = "JsonWebTokenError"
              THEN ErrorHandler("Json Web Token is invalid, Try again.", 400)
              ELSE e4
        e6 == IF e0.name = "TokenExpiredError"
              THEN ErrorHandler("Json Web Token is expired, Try again.", 400)
              ELSE e5
        e7 == IF \/ e0.code \in {"ECONNREFUSED", "ENOTFOUND", "ETIMEDOUT",
                                 "ECONNRESET"}
                 \/ e0.message \in ConnectionMessages
              THEN ErrorHandler(
                     "Database connection failed. Please try again later.", 503)
              ELSE e6
    IN [status |-> e7.statusCode, message |-> e7.message]

ErrorMiddleware(err) ==
    LET e0 == [err EXCEPT
                  !.statusCode = IF @ = 0 THEN 500 ELSE @,
                  !.message = IF @ = "" THEN "Internal server error." ELSE @]
        e1 == IF e0.code = "22P02"
              THEN ErrorHandler("Invalid ID format provided", 400) ELSE e0
        e2 == IF e1.code = "23505"
              THEN ErrorHandler("Duplicate entry already exists", 400) ELSE e1
        e3 == IF e2.code = "23503"
              THEN ErrorHandler("Referenced record does not exist", 400)
              ELSE e2
        e4 == IF e3.code = "23502"
              THEN ErrorHandler("Required field is missing", 400) ELSE e3
        e5 == IF e4.name = "JsonWebTokenError"
              THEN ErrorHandler("Json Web Token is invalid, Try again.", 400)
              ELSE e4
        e6 == IF e5.name = "TokenExpiredError"
              THEN ErrorHandler("Json Web Token is expired, Try again.", 400)
              ELSE e5
        e7 == IF \/ e6.code \in {"ECONNREFUSED", "ENOTFOUND", "ETIMEDOUT",
                                 "ECONNRESET"}
                 \/ e6.message \in ConnectionMessages
              THEN ErrorHandler(
                     "Database connection failed. Please try again later.", 503)
              ELSE e6
    IN [status |-> e7.statusCode, message |-> e7.message]

(* ------------------------------------------------------------------ *)
(* ApplicationModel                                                    *)
(* ------------------------------------------------------------------ *)
\* variant of FindExistingRows that compares the employer column
FindExistingRowsByEmployer(jobSeekerUserId, jobId) ==
    {a \in DOMAIN applications :
        /\ applications[a].employerUserId = jobSeekerUserId
        /\ applications[a].jobId = jobId
        /\ applications[a].deletedByJobSeeker = FALSE
        /\ applications[a].deletedByEmployer = FALSE}

\* variant of FindExistingRows without the deleted_by_employer condition
FindExistingRowsAnyEmployerFlag(jobSeekerUserId, jobId) ==
    {a \in DOMAIN applications :
        /\ applications[a].jobSeekerUserId = jobSeekerUserId
        /\ applications[a].jobId = jobId
        /\ applications[a].deletedByJobSeeker = FALSE}

\* rows selected by findExisting
FindExistingRows(jobSeekerUserId, jobId) ==
    {a \in DOMAIN applications :
        /\ applications[a].jobSeekerUserId = jobSeekerUserId
        /\ applications[a].jobId = jobId
        /\ applications[a].deletedByJobSeeker = FALSE
        /\ applications[a].deletedByEmployer = FALSE}

\* result.rows[0] ? formatApplication(result.rows[0]) : null  (0 is null);
\* the statement has no ORDER BY, so any selected row can come first
FindExisting(jobSeekerUserId, jobId) ==
    IF FindExistingRows(jobSeekerUserId, jobId) = {} THEN {0}
    ELSE FindExistingRows(jobSeekerUserId, jobId)

\* CHECK (job_seeker_email ~* '^[A-Za-z0-9._%+-]+@[A-Za-z0-9.-]+\.[A-Za-z]{2,}$')
LetterChars == {"a", "b", "c", "o", "x"}
EmailColumnCheck(v) ==
    /\ v.t = "string"
    /\ \E a, d \in DOMAIN v.s :
          /\ 1 < a /\ a + 1 < d /\ d + 2 <= Len(v.s)
          /\ v.s[a] = "@" /\ v.s[d] = "."
          /\ \A k \in 1..(a - 1) :
                v.s[k] \in LetterChars \cup DigitChars
                             \cup {".", "_", "%", "+", "-"}
          /\ \A k \in (a + 1)..(d - 1) :
                v.s[k] \in LetterChars \cup DigitChars \cup {".", "-"}
          /\ \A k \in (d + 1)..Len(v.s) : v.s[k] \in LetterChars

\* variant of ApplicationCreate over a table with a uniqueness constraint
\* on the active rows of (job seeker, job)
ApplicationCreateUnique(data) ==
    IF ~(/\ data.jobSeekerUserId \in DOMAIN users
         /\ data.employerUserId \in DOMAIN users
         /\ data.jobId \in DOMAIN jobs)
    THEN [ok |-> FALSE, code |-> "23503", rows |-> applications]
    ELSE IF ~EmailColumnCheck(data.jobSeekerEmail)
    THEN [ok |-> FALSE, code |-> "23514", rows |-> applications]
    ELSE IF \E a \in DOMAIN applications :
               /\ applications[a].jobSeekerUserId = data.jobSeekerUserId
               /\ applications[a].jobId = data.jobId
               /\ ~applications[a].deletedByJobSeeker
               /\ ~applications[a].deletedByEmployer
    THEN [ok |-> FALSE, code |-> "23505", rows |-> applications]
    ELSE [ok |-> TRUE, code |-> "",
          rows |-> [a \in DOMAIN applications \cup {appSeq + 1} |->
                      IF a = appSeq + 1
                      THEN [jobSeekerUserId |-> data.jobSeekerUserId,
                            employerUserId |-> data.employerUserId,
                            jobId |-> data.jobId,
                            deletedByJobSeeker |-> FALSE,
                            deletedByEmployer |-> FALSE]
                      ELSE applications[a]]]

\* INSERT INTO applications: the constraints of the table are the foreign
\* keys and the email check; no uniqueness over (job seeker, job)
ApplicationCreate(data) ==
    IF ~(/\ data.jobSeekerUserId \in DOMAIN users
         /\ data.employerUserId \in DOMAIN users
         /\ data.jobId \in DOMAIN jobs)
    THEN [ok |-> FALSE, code |-> "23503", rows |-> applications]
    ELSE IF ~EmailColumnCheck(data.jobSeekerEmail)
    THEN [ok |-> FALSE, code |-> "23514", rows |-> applications]
    ELSE [ok |-> TRUE, code |-> "",
          rows |-> [a \in DOMAIN applications \cup {appSeq + 1} |->
                      IF a = appSeq + 1
                      THEN [jobSeekerUserId |-> data.jobSeekerUserId,
                            employerUserId |-> data.employerUserId,
                            jobId |-> data.jobId,
                            deletedByJobSeeker |-> FALSE,
                            deletedByEmployer |-> FALSE]
                      ELSE applications[a]]]

\* variant of DeleteByJobSeeker that marks the row deleted for both parties
DeleteByJobSeekerBothFlags(id, jobSeekerUserId) ==
    IF id \in DOMAIN applications
          /\ applications[id].jobSeekerUserId = jobSeekerUserId
    THEN [ok |-> TRUE,
          rows |-> [applications EXCEPT ![id].deletedByJobSeeker = TRUE,
                                        ![id].deletedByEmployer = TRUE]]
    ELSE [ok |-> FALSE, rows |-> applications]

\* UPDATE ... SET deleted_by_job_seeker = true WHERE id AND job_seeker_user_id
DeleteByJobSeeker(id, jobSeekerUserId) ==
    IF id \in DOMAIN applications
          /\ applications[id].jobSeekerUserId = jobSeekerUserId
    THEN [ok |-> TRUE,
          rows |-> [applications EXCEPT ![id].deletedByJobSeeker = TRUE]]
    ELSE [ok |-> FALSE, rows |-> applications]

\* UPDATE ... SET deleted_by_employer = true WHERE id AND employer_user_id
DeleteByEmployer(id, employerUserId) ==
    IF id \in DOMAIN applications
          /\ applications[id].employerUserId = employerUserId
    THEN [ok |-> TRUE,
          rows |-> [applications EXCEPT ![id].deletedByEmployer = TRUE]]
    ELSE [ok |-> FALSE, rows |-> applications]

(* ------------------------------------------------------------------ *)
(* applicationController: postApplication and deleteApplication        *)
(* ------------------------------------------------------------------ *)
ReqSlots == {1, 2}

PhoneValid == Str(<<"9", "8", "7", "6", "5", "4", "3", "2", "1", "0">>)
PhoneInvalid == Str(<<"1", "2", "3", "4", "5">>)
SomeText == Str(<<"x">>)
SomeEmail == Str(<<"a", "@", "b", ".", "c", "o">>)
ShortTldEmail == Str(<<"a", "@", "b", ".", "c">>)

\* request bodies of postApplication: phone, email, and one value standing
\* for each of name, address and coverLetter
PostBodies ==
    {[phone |-> PhoneValid, email |-> SomeEmail, rest |-> SomeText],
     [phone |-> PhoneInvalid, email |-> SomeEmail, rest |-> SomeText],
     [phone |-> Undefined, email |-> SomeEmail, rest |-> SomeText],
     [phone |-> PhoneValid, email |-> SomeText, rest |-> SomeText],
     [phone |-> PhoneValid, email |-> ShortTldEmail, rest |-> SomeText]}

IdleReq ==
    [op |-> "none", pc |-> "idle", user |-> "", target |-> 0,
     body |-> [phone |-> Undefined, email |-> Undefined, rest |-> Undefined],
     job |-> [postedBy |-> ""], existing |-> 0,
     status |-> 0, message |-> ""]

\* the response is sent; the request object is dropped
Respond(req, status, message) ==
    [req EXCEPT !.pc = "done", !.status = status, !.message = message,
                !.body = IdleReq.body, !.job = IdleReq.job]

\* next(err) or a throw inside catchAsyncErrors reaches errorMiddleware
Fail(req, err) ==
    LET res == ErrorMiddleware(err)
    IN Respond(req, res.status, res.message)

SlotFree(p) == reqs[p].pc \in {"idle", "done"}

\* the request is received: isAuthenticated has set req.user; the checks up
\* to and including await JobModel.findByIdWithPoster(id)
PostApplicationBegin(p, u, j, body) ==
    /\ SlotFree(p)
    /\ reqCount < MaxReqs
    /\ reqCount' = reqCount + 1
    /\ LET req == [IdleReq EXCEPT !.op = "post", !.user = u, !.target = j,
                                  !.body = body]
           converted == ConvertPhoneToNumber(body.phone)
       IN reqs' = [reqs EXCEPT ![p] =
              IF Falsy(body.rest) \/ Falsy(body.email) \/ Falsy(body.phone)
              THEN Fail(req, ErrorHandler(
                       "Please provide all required details.", 400))
              ELSE IF converted.threw
              THEN Fail(req, PlainError(converted.message))
              ELSE IF users[u].role # "Job Seeker"
              THEN Fail(req, ErrorHandler(
                       "Only job seekers can apply for jobs.", 400))
              ELSE IF ~(j \in DOMAIN jobs /\ jobs[j].postedBy \in DOMAIN users)
              THEN Fail(req, ErrorHandler("Job not found.", 404))
              ELSE [req EXCEPT !.pc = "findExisting",
                               !.job = [postedBy |-> jobs[j].postedBy]]]
    /\ UNCHANGED <<applications, appSeq>>
    /\ UNCHANGED <<newsVars, valVars, httpVars, dbVars, poolVars>>

\* await ApplicationModel.findExisting(req.user.id, id), then the
\* validation of the assembled applicationData
PostApplicationFindExisting(p) ==
    /\ reqs[p].pc = "findExisting"
    /\ \E existing \in FindExisting(reqs[p].user, reqs[p].target) :
        LET req == [reqs[p] EXCEPT !.existing = existing]
            applicationData ==
                [jobSeekerUserId |-> Str(<<req.user>>),
                 jobSeekerName |-> req.body.rest,
                 jobSeekerEmail |-> req.body.email,
                 jobSeekerPhone |-> ConvertPhoneToNumber(req.body.phone).value,
                 jobSeekerAddress |-> req.body.rest,
                 coverLetter |-> req.body.rest,
                 employerUserId |-> Str(<<req.job.postedBy>>),
                 jobId |-> Str(<<"j">>),
                 jobTitle |-> SomeText]
            validation == ValidateApplicationData(applicationData)
        IN reqs' = [reqs EXCEPT ![p] =
               IF existing # 0
               THEN Fail(req, ErrorHandler(
                        "You have already applied for this job.", 400))
               ELSE IF validation.threw
               THEN Fail(req, PlainError(validation.message))
               ELSE IF Len(validation.errors) > 0
               THEN Fail(req, ErrorHandler(Join(validation.errors), 400))
               ELSE [req EXCEPT !.pc = "create"]]
    /\ UNCHANGED <<applications, appSeq, reqCount>>
    /\ UNCHANGED <<newsVars, valVars, httpVars, dbVars, poolVars>>

\* await ApplicationModel.create(applicationData), then the 201 response
PostApplicationCreate(p) ==
    /\ reqs[p].pc = "create"
    /\ LET req == reqs[p]
           created == ApplicationCreate(
                          [jobSeekerUserId |-> req.user,
                           jobSeekerEmail |-> req.body.email,
                           employerUserId |-> req.job.postedBy,
                           jobId |-> req.target])
       IN /\ applications' = created.rows
          /\ appSeq' = IF created.ok THEN appSeq + 1 ELSE appSeq
          /\ reqs' = [reqs EXCEPT ![p] =
                 IF created.ok
                 THEN Respond(req, 201, "Application submitted successfully.")
                 ELSE Fail(req, [PlainError("constraint violation")
                                    EXCEPT !.code = created.code])]
    /\ UNCHANGED reqCount
    /\ UNCHANGED <<newsVars, valVars, httpVars, dbVars, poolVars>>

\* variant of DeleteApplicationBegin without the two ownership checks
DeleteApplicationBeginAnyParty(p, u, a) ==
    /\ SlotFree(p)
    /\ reqCount < MaxReqs
    /\ reqCount' = reqCount + 1
    /\ LET req == [IdleReq EXCEPT !.op = "delete", !.user = u, !.target = a]
       IN reqs' = [reqs EXCEPT ![p] =
              IF a \notin DOMAIN applications
              THEN Fail(req, ErrorHandler("Application not found.", 404))
              ELSE IF users[u].role = "Job Seeker"
              THEN [req EXCEPT !.pc = "deleteByJobSeeker"]
              ELSE IF users[u].role = "Employer"
              THEN [req EXCEPT !.pc = "deleteByEmployer"]
              ELSE Fail(req, ErrorHandler("Invalid user role.", 400))]
    /\ UNCHANGED <<applications, appSeq>>
    /\ UNCHANGED <<newsVars, valVars, httpVars, dbVars, poolVars>>

\* the request is received: await ApplicationModel.findById(id), then the
\* role and ownership checks
DeleteApplicationBegin(p, u, a) ==
    /\ SlotFree(p)
    /\ reqCount < MaxReqs
    /\ reqCount' = reqCount + 1
    /\ LET req == [IdleReq EXCEPT !.op = "delete", !.user = u, !.target = a]
       IN reqs' = [reqs EXCEPT ![p] =
              IF a \notin DOMAIN applications
              THEN Fail(req, ErrorHandler("Application not found.", 404))
              ELSE IF users[u].role = "Job Seeker"
              THEN IF applications[a].jobSeekerUserId # u
                   THEN Fail(req, ErrorHandler(
                       "You are not authorized to delete this application.",
                       403))
                   ELSE [req EXCEPT !.pc = "deleteByJobSeeker"]
              ELSE IF users[u].role = "Employer"
              THEN IF applications[a].employerUserId # u
                   THEN Fail(req, ErrorHandler(
                       "You are not authorized to delete this application.",
                       403))
                   ELSE [req EXCEPT !.pc = "deleteByEmployer"]
              ELSE Fail(req, ErrorHandler("Invalid user role.", 400))]
    /\ UNCHANGED <<applications, appSeq>>
    /\ UNCHANGED <<newsVars, valVars, httpVars, dbVars, poolVars>>

\* await deleteByJobSeeker / deleteByEmployer, then the response
DeleteApplicationUpdate(p) ==
    /\ reqs[p].pc \in {"deleteByJobSeeker", "deleteByEmployer"}
    /\ LET req == reqs[p]
           deleted == IF req.pc = "deleteByJobSeeker"
                      THEN DeleteByJobSeeker(req.target, req.user)
                      ELSE DeleteByEmployer(req.target, req.user)
       IN /\ applications' = deleted.rows
          /\ reqs' = [reqs EXCEPT ![p] =
                 IF deleted.ok
                 THEN Respond(req, 200, "Application deleted successfully.")
                 ELSE Fail(req, ErrorHandler(
                          "Failed to delete application.", 500))]
    /\ UNCHANGED <<appSeq, reqCount>>
    /\ UNCHANGED <<newsVars, valVars, httpVars, dbVars, poolVars>>

\* no other request is being served
NoRequestInProgress == \A p \in ReqSlots : SlotFree(p)

\* a request is taken by the first slot unless that slot is serving one
FirstFreeSlot(p) == \A q \in ReqSlots : q < p => ~SlotFree(q)

(* ------------------------------------------------------------------ *)
(* Arguments handed to the validation functions                        *)
(* ------------------------------------------------------------------ *)
Chars(n) == [i \in 1..n |-> "a"]

PhoneSamples == {Undefined, PhoneValid, PhoneInvalid, Str(<<"a", "b", "c">>)}

UserInputs ==
    {[name |-> nm, email |-> em, phone |-> ph, password |-> pw, role |-> ro,
      firstNiche |-> fn, secondNiche |-> SomeText, thirdNiche |-> SomeText] :
        nm \in {Undefined, Str(Chars(2)), Str(Chars(3))},
        em \in {Undefined, SomeText, SomeEmail},
        ph \in PhoneSamples,
        pw \in {Str(Chars(7)), Str(Chars(8))},
        ro \in {JobSeekerStr, EmployerStr, SomeText},
        fn \in {Undefined, SomeText}}

JobInputs ==
    {[title |-> ti, jobType |-> jt, location |-> lo, companyName |-> SomeText,
      responsibilities |-> SomeText, qualifications |-> SomeText,
      salary |-> SomeText, jobNiche |-> ni, postedBy |-> pb] :
        ti \in {Undefined, Str(<<" ">>), SomeText},
        jt \in {Undefined, FullTimeStr, PartTimeStr, SomeText},
        lo \in {Undefined, SomeText},
        ni \in {Str(<<" ", " ">>), SomeText},
        pb \in {Undefined, SomeText}}

ApplicationInputs ==
    {[jobSeekerUserId |-> id, jobSeekerName |-> nm, jobSeekerEmail |-> em,
      jobSeekerPhone |-> ph, jobSeekerAddress |-> ad, coverLetter |-> SomeText,
      employerUserId |-> SomeText, jobId |-> SomeText, jobTitle |-> SomeText] :
        id \in {Undefined, SomeText},
        nm \in {Undefined, Str(<<" ">>), SomeText},
        em \in {SomeText, SomeEmail},
        ph \in PhoneSamples \cup {Num(FALSE, PhoneValid.s)},
        ad \in {Undefined, SomeText}}

NotCalled == [threw |-> FALSE, errors |-> <<>>, message |-> ""]

CallValidateUserData ==
    /\ valKind = "user" /\ valPc = "input"
    /\ valResult' = ValidateUserData(valInput)
    /\ valPc' = "returned"
    /\ UNCHANGED <<valKind, valInput, newsVars, appVars, httpVars, dbVars, poolVars>>

CallValidateJobData ==
    /\ valKind = "job" /\ valPc = "input"
    /\ valResult' = ValidateJobData(valInput)
    /\ valPc' = "returned"
    /\ UNCHANGED <<valKind, valInput, newsVars, appVars, httpVars, dbVars, poolVars>>

CallValidateApplicationData ==
    /\ valKind = "application" /\ valPc = "input"
    /\ valResult' = ValidateApplicationData(valInput)
    /\ valPc' = "returned"
    /\ UNCHANGED <<valKind, valInput, newsVars, appVars, httpVars, dbVars, poolVars>>

(* ------------------------------------------------------------------ *)
(* Specifications                                                      *)
(* ------------------------------------------------------------------ *)
NewsVarsInit ==
    /\ users = InitUsers
    /\ jobs = <<>>
    /\ jobSeq = 0
    /\ now = 0
    /\ ticks = 0
    /\ faults = 0
    /\ runs = [r \in RunIds |-> IdleRun]

AppVarsInit ==
    /\ applications = <<>>
    /\ appSeq = 0
    /\ reqs = [p \in ReqSlots |-> IdleReq]
    /\ reqCount = 0

ValVarsInit ==
    /\ valKind = "none"
    /\ valInput = Undefined
    /\ valPc = "input"
    /\ valResult = NotCalled

\* no storage or token failure was raised while serving the request
NotRaised == [code |-> "", name |-> "", message |-> "", statusCode |-> 0]

NoResponse ==
    [op |-> "none", status |-> 0, body |-> [success |-> "", message |-> ""],
     raised |-> NotRaised, token |-> "none", target |-> NULL]

HttpVarsInit ==
    /\ response = NoResponse
    /\ httpCount = 0

RawTables == {"users", "jobs", "applications"}
NewTables == {"users_new", "jobs_new", "applications_new"}
SequelizeTables == {"Users", "Jobs", "Applications"}
TableNames == RawTables \cup NewTables \cup SequelizeTables

Absent == [exists |-> FALSE, rows |-> {}]
EmptyTable == [exists |-> TRUE, rows |-> {}]

\* the schema the server runs on, holding no row
\* no pool yet, no call of executeQuery or executeTransaction yet
PoolVarsInit ==
    /\ cachedPool = 0
    /\ pools = <<>>
    /\ calls = <<>>

DbVarsInit ==
    /\ db = [t \in TableNames |-> IF t \in RawTables THEN EmptyTable
                                  ELSE Absent]
    /\ starts = 0
    /\ PoolVarsInit

\* the schedule fires the callback after the previous firing has returned
NoRunInProgress(r) == \A q \in RunIds : q < r => runs[q].pc = "done"

\* the schedule fires the callback whether or not earlier firings returned
EarlierRunsStarted(r) == \A q \in RunIds : q < r => runs[q].pc # "idle"

\* the broadcaster with firings that return within the schedule interval
NewsInit == NewsVarsInit /\ AppVarsInit /\ ValVarsInit /\ HttpVarsInit /\ DbVarsInit

NewsNext ==
    \/ \E r \in RunIds : NoRunInProgress(r) /\ StartRun(r)
    \/ \E r \in RunIds : Lookup(r)
    \/ \E r \in RunIds : Send(r)
    \/ \E r \in RunIds : Mark(r)
    \/ \E u \in DOMAIN users, niche \in JobNiches : PostJob(u, niche)
    \/ \E u \in DOMAIN users, j \in JobIds : DeleteJob(u, j)
    \/ Tick

NewsSpec == NewsInit /\ [][NewsNext]_vars

\* the broadcaster with firings that may overlap, over postings in storage
OverlapJobs ==
    {[j \in JobIds |-> [jobNiche |-> niche[j], newsLettersSent |-> FALSE,
                        createdAt |-> 0, postedBy |-> "e1"]] :
        niche \in [JobIds -> JobNiches]}

OverlapInit ==
    /\ users = InitUsers
    /\ jobs \in OverlapJobs
    /\ jobSeq = MaxJobs
    /\ now = 0
    /\ ticks = 0
    /\ faults = 0
    /\ runs = [r \in RunIds |-> IdleRun]
    /\ AppVarsInit /\ ValVarsInit /\ HttpVarsInit /\ DbVarsInit

OverlapNext ==
    \/ \E r \in RunIds : EarlierRunsStarted(r) /\ StartRun(r)
    \/ \E r \in RunIds : Lookup(r)
    \/ \E r \in RunIds : Send(r)
    \/ \E r \in RunIds : Mark(r)

OverlapSpec == OverlapInit /\ [][OverlapNext]_vars

\* the application routes over two postings of employer e1
AppJobs ==
    [j \in {1, 2} |-> [jobNiche |-> "IT", newsLettersSent |-> FALSE,
                       createdAt |-> 0, postedBy |-> "e1"]]

AppCallers == {"u1", "u2", "e1"}
AppJobTargets == {1, 2, 3}
AppTargets == 1..MaxReqs

AppInit ==
    /\ users = InitUsers
    /\ jobs = AppJobs
    /\ jobSeq = 2
    /\ now = 0
    /\ ticks = 0
    /\ faults = 0
    /\ runs = [r \in RunIds |-> IdleRun]
    /\ AppVarsInit /\ ValVarsInit /\ HttpVarsInit /\ DbVarsInit

\* requests served one after the other
AppNext ==
    \/ \E p \in ReqSlots, u \in AppCallers, j \in AppJobTargets,
          body \in PostBodies :
            NoRequestInProgress /\ FirstFreeSlot(p)
                /\ PostApplicationBegin(p, u, j, body)
    \/ \E p \in ReqSlots : PostApplicationFindExisting(p)
    \/ \E p \in ReqSlots : PostApplicationCreate(p)
    \/ \E p \in ReqSlots, u \in AppCallers, a \in AppTargets :
            NoRequestInProgress /\ FirstFreeSlot(p)
                /\ DeleteApplicationBegin(p, u, a)
    \/ \E p \in ReqSlots : DeleteApplicationUpdate(p)

AppSpec == AppInit /\ [][AppNext]_vars

\* requests served concurrently, one per slot
AppRaceNext ==
    \/ \E p \in ReqSlots, u \in AppCallers, j \in AppJobTargets,
          body \in PostBodies :
            FirstFreeSlot(p) /\ PostApplicationBegin(p, u, j, body)
    \/ \E p \in ReqSlots : PostApplicationFindExisting(p)
    \/ \E p \in ReqSlots : PostApplicationCreate(p)
    \/ \E p \in ReqSlots, u \in AppCallers, a \in AppTargets :
            FirstFreeSlot(p) /\ DeleteApplicationBegin(p, u, a)
    \/ \E p \in ReqSlots : DeleteApplicationUpdate(p)

AppRaceSpec == AppInit /\ [][AppRaceNext]_vars

\* one call of a validation function on one argument
ValInit ==
    /\ NewsVarsInit /\ AppVarsInit /\ HttpVarsInit /\ DbVarsInit
    /\ valPc = "input"
    /\ valResult = NotCalled
    /\ \/ valKind = "user" /\ valInput \in UserInputs
       \/ valKind = "job" /\ valInput \in JobInputs
       \/ valKind = "application" /\ valInput \in ApplicationInputs

ValNext ==
    \/ CallValidateUserData
    \/ CallValidateJobData
    \/ CallValidateApplicationData

ValSpec == ValInit /\ [][ValNext]_vars

(* ------------------------------------------------------------------ *)
(* Observations on a firing of the callback                            *)
(* ------------------------------------------------------------------ *)
FetchedIds(r) == {runs[r].jobs[n].id : n \in DOMAIN runs[r].jobs}

\* the posting at position n of the firing's list has been fully handled
Handled(r, n) == runs[r].pc = "done" \/ n < runs[r].i

\* number of sendEmail calls of firing r for posting j to user u
Attempts(r, j, u) ==
    Cardinality({n \in DOMAIN runs[r].log :
                    runs[r].log[n].job = j /\ runs[r].log[n].user = u})

Finished(r) == runs[r].pc = "done" /\ ~runs[r].queryFailed

Stored(j) == j \in DOMAIN jobs

(* ------------------------------------------------------------------ *)
(* C1                                                                  *)
(* ------------------------------------------------------------------ *)
\* the candidate query of a firing that starts in this step succeeded
QueriedNow(r) ==
    /\ runs[r].pc = "idle"
    /\ runs'[r].pc # "idle"
    /\ ~runs'[r].queryFailed

C1FetchExact ==
    \A r \in RunIds :
        QueriedNow(r) =>
            {runs'[r].jobs[n].id : n \in DOMAIN runs'[r].jobs}
                = {j \in DOMAIN jobs : /\ ~jobs[j].newsLettersSent
                                       /\ now - jobs[j].createdAt <= 24}

\* a flag flips only in the flag update of a firing that fetched the posting
C1FlagStep ==
    \A j \in DOMAIN jobs \cap DOMAIN jobs' :
        jobs'[j].newsLettersSent # jobs[j].newsLettersSent =>
            \E r \in RunIds : /\ runs[r].pc = "mark"
                              /\ j \in FetchedIds(r)
                              /\ j \in runs'[r].marked \ runs[r].marked

C1Processed ==
    \A r \in RunIds :
        /\ runs[r].looked \subseteq FetchedIds(r)
        /\ runs[r].marked \subseteq runs[r].looked
        /\ \A n \in DOMAIN runs[r].log : runs[r].log[n].job \in runs[r].looked
        /\ Finished(r) => runs[r].looked = FetchedIds(r)
        /\ \A n \in DOMAIN runs[r].jobs :
              runs[r].queryAt - runs[r].jobs[n].createdAt <= 24
        /\ runs[r].pc # "idle" =>
              \A j \in DOMAIN jobs :
                  runs[r].queryAt - jobs[j].createdAt > 24 =>
                      j \notin FetchedIds(r)

\* C1: a firing processes exactly the postings that were unsent and at most
\* 24 hours old at its query; a posting older than that at the query of a
\* firing is neither looked up, notified nor marked by that firing, and a
\* sent-flag changes only through the flag update of a firing that fetched
\* the posting, so a stale unsent posting stays unsent in every later run.
C1_CandidateSelection ==
    /\ []C1Processed
    /\ [][C1FetchExact /\ C1FlagStep]_vars

C1_Witness ==
    \E r \in RunIds, j \in DOMAIN jobs :
        /\ Finished(r)
        /\ ~jobs[j].newsLettersSent
        /\ runs[r].queryAt - jobs[j].createdAt > 24
        /\ runs[r].marked # {}
        /\ j \notin FetchedIds(r)

(* ------------------------------------------------------------------ *)
(* C2                                                                  *)
(* ------------------------------------------------------------------ *)
NoJobError(r) ==
    Finished(r) /\ runs[r].lookupFailed = {} /\ runs[r].updateFailed = {}

\* C2 as stated: after a firing without lookup or update failure every
\* fetched posting has its sent-flag true, zero matched subscribers included.
C2_AllFetchedMarked ==
    \A r \in RunIds :
        NoJobError(r) =>
            \A j \in FetchedIds(r) : Stored(j) => jobs[j].newsLettersSent

\* C2 amended: after a firing without lookup or update failure every fetched
\* posting with at least one matched subscriber has its sent-flag true
\* whatever the number of failed sends, and a fetched posting with no matched
\* subscriber is not marked by the firing.
C2_MatchedFetchedMarked ==
    \A r \in RunIds :
        NoJobError(r) =>
            \A n \in DOMAIN runs[r].jobs :
                LET j == runs[r].jobs[n].id
                IN /\ runs[r].matched[n] # {} =>
                        /\ j \in runs[r].marked
                        /\ Stored(j) => jobs[j].newsLettersSent
                   /\ runs[r].matched[n] = {} => j \notin runs[r].marked

C2_Witness ==
    \E r \in RunIds :
        /\ NoJobError(r)
        /\ \E n \in DOMAIN runs[r].jobs :
              /\ runs[r].matched[n] # {}
              /\ Stored(runs[r].jobs[n].id)
              /\ jobs[runs[r].jobs[n].id].newsLettersSent
              /\ \E m \in DOMAIN runs[r].log :
                    /\ runs[r].log[m].job = runs[r].jobs[n].id
                    /\ ~runs[r].log[m].ok
        /\ \E n \in DOMAIN runs[r].jobs :
              /\ runs[r].matched[n] = {}
              /\ Stored(runs[r].jobs[n].id)
              /\ ~jobs[runs[r].jobs[n].id].newsLettersSent

(* ------------------------------------------------------------------ *)
(* C3                                                                  *)
(* ------------------------------------------------------------------ *)
\* C3: whatever sends fail, once a posting with matched subscribers has been
\* handled every matched subscriber has had its send attempt, the posting is
\* marked unless the flag update itself failed, and the firing goes on to
\* the postings after it.
C3_SendFailureIsolation ==
    \A r \in RunIds :
        /\ \A n \in DOMAIN runs[r].jobs :
              LET j == runs[r].jobs[n].id
              IN (Handled(r, n) /\ j \notin runs[r].lookupFailed) =>
                    /\ \A u \in runs[r].matched[n] : Attempts(r, j, u) = 1
                    /\ (runs[r].matched[n] # {}
                          /\ j \notin runs[r].updateFailed) =>
                            j \in runs[r].marked
        /\ Finished(r) => runs[r].looked = FetchedIds(r)

C3_Witness ==
    \E r \in RunIds :
        /\ Finished(r)
        /\ Len(runs[r].jobs) = 2
        /\ \E a, b \in DOMAIN runs[r].log :
              /\ a < b
              /\ runs[r].log[a].job = runs[r].jobs[1].id
              /\ runs[r].log[b].job = runs[r].jobs[1].id
              /\ ~runs[r].log[a].ok
              /\ runs[r].log[b].ok
        /\ runs[r].jobs[1].id \in runs[r].marked
        /\ runs[r].jobs[2].id \in runs[r].looked

(* ------------------------------------------------------------------ *)
(* C4                                                                  *)
(* ------------------------------------------------------------------ *)
\* U follows the niche: role 'Job Seeker' and one of the three niches equal
Follows(u, niche) ==
    /\ users[u].role = "Job Seeker"
    /\ niche \in {users[u].firstNiche, users[u].secondNiche,
                  users[u].thirdNiche}

\* C4: a firing attempts a notification of posting P to user U only if U is
\* a Job Seeker one of whose three niches equals P's niche, never more than
\* once, and once P is handled (its lookup not failing) every such user has
\* had exactly one attempt.
C4_RecipientMatching ==
    \A r \in RunIds :
        /\ \A m \in DOMAIN runs[r].log :
              \E n \in DOMAIN runs[r].jobs :
                  /\ runs[r].jobs[n].id = runs[r].log[m].job
                  /\ Follows(runs[r].log[m].user, runs[r].jobs[n].jobNiche)
        /\ \A n \in DOMAIN runs[r].jobs, u \in DOMAIN users :
              LET j == runs[r].jobs[n].id
              IN /\ Attempts(r, j, u) <= 1
                 /\ (Handled(r, n) /\ j \notin runs[r].lookupFailed) =>
                        (Attempts(r, j, u) = 1
                            <=> Follows(u, runs[r].jobs[n].jobNiche))

C4_Witness ==
    \E r \in RunIds : \E n \in DOMAIN runs[r].jobs :
        /\ Handled(r, n)
        /\ runs[r].jobs[n].jobNiche = "IT"
        /\ Attempts(r, runs[r].jobs[n].id, "u1") = 1
        /\ Attempts(r, runs[r].jobs[n].id, "u2") = 1
        /\ Attempts(r, runs[r].jobs[n].id, "u3") = 0
        /\ Attempts(r, runs[r].jobs[n].id, "e1") = 0

(* ------------------------------------------------------------------ *)
(* C5                                                                  *)
(* ------------------------------------------------------------------ *)
JobErrors(r) == runs[r].lookupFailed \cup runs[r].updateFailed

\* a step in which a niche lookup or a flag update of firing r fails
JobErrorStep(r) == JobErrors(r) # runs'[r].lookupFailed \cup runs'[r].updateFailed

C5Caught ==
    \A r \in RunIds :
        /\ JobErrors(r) \cap runs[r].marked = {}
        /\ Finished(r) => runs[r].looked = FetchedIds(r)

C5Step ==
    \A r \in RunIds :
        JobErrorStep(r) =>
            /\ jobs' = jobs
            /\ runs'[r].pc = IF runs[r].i < Len(runs[r].jobs)
                             THEN "lookup" ELSE "done"
            /\ runs'[r].i = IF runs[r].i < Len(runs[r].jobs)
                            THEN runs[r].i + 1 ELSE runs[r].i

\* C5: a failing niche lookup or flag update ends the handling of its own
\* posting only: the step leaves every sent-flag as it was, the firing never
\* marks that posting, and it goes on with the next posting, so at its end
\* every fetched posting has been taken up.
C5_PostingFailureIsolation ==
    /\ []C5Caught
    /\ [][C5Step]_vars

C5_Witness ==
    \E r \in RunIds :
        /\ Finished(r)
        /\ Len(runs[r].jobs) = 2
        /\ runs[r].jobs[1].id \in JobErrors(r)
        /\ Stored(runs[r].jobs[1].id)
        /\ ~jobs[runs[r].jobs[1].id].newsLettersSent
        /\ runs[r].jobs[2].id \in runs[r].marked

(* ------------------------------------------------------------------ *)
(* C6                                                                  *)
(* ------------------------------------------------------------------ *)
PairRows(s, j) ==
    {a \in DOMAIN applications :
        applications[a].jobSeekerUserId = s /\ applications[a].jobId = j}

ActiveRows(s, j) ==
    {a \in PairRows(s, j) :
        ~applications[a].deletedByJobSeeker
            /\ ~applications[a].deletedByEmployer}

C6Unique ==
    \A s \in DOMAIN users, j \in DOMAIN jobs :
        Cardinality(ActiveRows(s, j)) <= 1

C6RejectStep ==
    /\ \A p \in ReqSlots :
          (/\ reqs[p].pc = "findExisting"
           /\ reqs'[p].pc # "findExisting"
           /\ ActiveRows(reqs[p].user, reqs[p].target) # {}) =>
                /\ reqs'[p].pc = "done"
                /\ reqs'[p].status = 400
                /\ reqs'[p].message = "You have already applied for this job."
                /\ applications' = applications
    /\ DOMAIN applications' # DOMAIN applications =>
          \E p \in ReqSlots :
              /\ reqs[p].pc = "create"
              /\ ActiveRows(reqs[p].user, reqs[p].target) = {}

\* C6: with requests served one after the other, a (job seeker, job) pair
\* never has two rows with both deletion flags false; a postApplication for
\* a pair with an active row is answered 400 and inserts nothing, and a row
\* is inserted only for a pair without an active row.
C6_ActiveApplicationUnique ==
    /\ []C6Unique
    /\ [][C6RejectStep]_vars

C6_Witness ==
    \E s \in DOMAIN users, j \in DOMAIN jobs :
        /\ Cardinality(PairRows(s, j)) = 2
        /\ Cardinality(ActiveRows(s, j)) = 1

(* ------------------------------------------------------------------ *)
(* C7                                                                  *)
(* ------------------------------------------------------------------ *)
C7InsertStep ==
    \A p \in ReqSlots :
        (/\ reqs[p].pc = "create"
         /\ reqs'[p].pc = "done"
         /\ EmailColumnCheck(reqs[p].body.email)) =>
              /\ reqs'[p].status = 201
              /\ DOMAIN applications' = DOMAIN applications \cup {appSeq + 1}
              /\ appSeq + 1 \notin DOMAIN applications
              /\ applications'[appSeq + 1].jobSeekerUserId = reqs[p].user
              /\ applications'[appSeq + 1].jobId = reqs[p].target
              /\ ~applications'[appSeq + 1].deletedByJobSeeker
              /\ ~applications'[appSeq + 1].deletedByEmployer

\* C7: with requests served concurrently, a postApplication that has passed
\* its findExisting check inserts its row and is answered 201 whatever rows
\* of the same pair have been inserted since the check, so two requests whose
\* checks both precede either insert leave two active rows of one pair.
C7_DuplicateSubmissionRace == [][C7InsertStep]_vars

C7_Witness ==
    \E s \in DOMAIN users, j \in DOMAIN jobs :
        /\ Cardinality(ActiveRows(s, j)) = 2
        /\ \A p \in ReqSlots :
              /\ reqs[p].pc = "done" /\ reqs[p].op = "post"
              /\ reqs[p].user = s /\ reqs[p].target = j
              /\ reqs[p].status = 201

(* ------------------------------------------------------------------ *)
(* C8                                                                  *)
(* ------------------------------------------------------------------ *)
InProgress(q) == runs[q].pc \in {"lookup", "send", "mark"}

C8Refetch ==
    \A r \in RunIds :
        QueriedNow(r) =>
            \A q \in RunIds \ {r} :
                InProgress(q) =>
                    \A j \in FetchedIds(q) :
                        (/\ Stored(j)
                         /\ ~jobs[j].newsLettersSent
                         /\ now - jobs[j].createdAt <= 24) =>
                              j \in {runs'[r].jobs[n].id :
                                        n \in DOMAIN runs'[r].jobs}

C8EachFiringSends ==
    \A r \in RunIds :
        \A n \in DOMAIN runs[r].jobs :
            (Handled(r, n) /\ runs[r].jobs[n].id \notin runs[r].lookupFailed)
                => \A u \in DOMAIN users :
                      Follows(u, runs[r].jobs[n].jobNiche) =>
                          Attempts(r, runs[r].jobs[n].id, u) = 1

C9Step ==
    \A p \in ReqSlots :
        (reqs[p].pc = "findExisting" /\ reqs'[p].pc # "findExisting") =>
            LET e == reqs'[p].existing
                s == reqs[p].user
                j == reqs[p].target
            IN /\ e # 0 <=>
                    \E a \in DOMAIN applications :
                        /\ applications[a].jobSeekerUserId = s
                        /\ applications[a].jobId = j
                        /\ applications[a].deletedByJobSeeker = FALSE
                        /\ applications[a].deletedByEmployer = FALSE
               /\ e # 0 =>
                    /\ e \in DOMAIN applications
                    /\ applications[e].jobSeekerUserId = s
                    /\ applications[e].jobId = j
                    /\ ~applications[e].deletedByJobSeeker
                    /\ ~applications[e].deletedByEmployer
               /\ (e = 0 /\ EmailTest(reqs[p].body.email)) =>
                    reqs'[p].pc = "create"

\* C9: findExisting returns a row of the pair exactly when the pair has a
\* row with both deletion flags false, the row returned is such a row, and
\* it returns null when every row of the pair has a flag set, after which
\* the application goes on to the insert.
C9_FindExisting == [][C9Step]_vars

C9_Witness ==
    \E s \in DOMAIN users, j \in DOMAIN jobs :
        \E a, b \in PairRows(s, j) :
            /\ applications[a].deletedByEmployer
            /\ ~applications[a].deletedByJobSeeker
            /\ b \in ActiveRows(s, j)

(* ------------------------------------------------------------------ *)
(* C10                                                                 *)
(* ------------------------------------------------------------------ *)
PhoneMessages ==
    {"Phone number is required",
     "Please provide a valid phone number (digits only)",
     "Invalid Indian phone number. It must be 10 digits and start with 6, 7, 8, or 9.",
     "Please provide a phone number",
     "Job seeker phone is required",
     "Please provide a valid job seeker phone number (10-15 digits)"}

ValPhone ==
    IF valKind = "user" THEN valInput.phone
    ELSE IF valKind = "application" THEN valInput.jobSeekerPhone
    ELSE PhoneValid

ValOtherViolations ==
    IF valKind = "user"
    THEN (IF Falsy(valInput.name) THEN 1 ELSE 0)
            + (IF Falsy(valInput.email) THEN 1 ELSE 0)
    ELSE IF valKind = "application"
    THEN (IF Falsy(valInput.jobSeekerUserId) THEN 1 ELSE 0)
            + (IF Falsy(valInput.jobSeekerName) THEN 1 ELSE 0)
            + (IF Falsy(valInput.jobSeekerAddress) THEN 1 ELSE 0)
    ELSE 0

\* C10: a validation function returns a list and never throws, and for an
\* argument with an invalid phone the list holds a phone message together
\* with the messages of the other violated rules.
C10_AccumulateAll ==
    valPc = "returned" =>
        /\ ~valResult.threw
        /\ (~Falsy(ValPhone) /\ ConvertPhoneToNumber(ValPhone).threw) =>
              /\ \E i \in DOMAIN valResult.errors :
                    valResult.errors[i] \in PhoneMessages
              /\ Len(valResult.errors) >= 1 + ValOtherViolations

TypeOK == now = ticks * TickHours

(* ------------------------------------------------------------------ *)
(* Calls of the phone normalizer                                       *)
(* ------------------------------------------------------------------ *)
PhoneTail == <<"8", "7", "6", "5", "4", "3", "2", "1", "0">>

\* arguments handed to convertPhoneToNumber: digit strings of nine to
\* eleven characters with and without a decoration before or after them,
\* and the values that are no string
PhoneInputs ==
    {Str(pre \o <<first>> \o body \o post) :
        pre \in {<<>>, <<" ">>, <<"+">>, <<"-">>, <<"0">>},
        first \in {"0", "5", "6", "9"},
        body \in {SubSeq(PhoneTail, 1, 8), PhoneTail},
        post \in {<<>>, <<"a">>, <<" ">>, <<".", "5">>, <<"1">>}}
    \cup {Undefined, [t |-> "null"], Str(<<>>), Str(<<"a", "b", "c">>),
          Str(<<"0">>), Num(FALSE, <<"0">>),
          Num(FALSE, <<"9">> \o PhoneTail), Num(TRUE, <<"9">> \o PhoneTail),
          Num(FALSE, <<"5">> \o PhoneTail), Num(FALSE, PhoneTail)}

CallConvertPhoneToNumber ==
    /\ valKind = "phone" /\ valPc = "input"
    /\ valResult' = ConvertPhoneToNumber(valInput)
    /\ valPc' = "returned"
    /\ UNCHANGED <<valKind, valInput, newsVars, appVars, httpVars, dbVars, poolVars>>

PhoneInit ==
    /\ NewsVarsInit /\ AppVarsInit /\ HttpVarsInit /\ DbVarsInit
    /\ valKind = "phone"
    /\ valInput \in PhoneInputs
    /\ valPc = "input"
    /\ valResult = NotCalled

PhoneNext == CallConvertPhoneToNumber

PhoneSpec == PhoneInit /\ [][PhoneNext]_vars

(* ------------------------------------------------------------------ *)
(* C11                                                                 *)
(* ------------------------------------------------------------------ *)
\* the decimal digits of a value that is written as ten digits, the first
\* of them 6, 7, 8 or 9 (the empty sequence for every other value)
TenDigitMobile(v) ==
    IF v.t = "string" /\ IndianMobile(v.s) THEN v.s
    ELSE IF v.t = "number" /\ ~v.neg /\ IndianMobile(v.d) THEN v.d
    ELSE <<>>

\* C11: convertPhoneToNumber returns the integer value of its argument when
\* the argument is ten digits of which the first is 6, 7, 8 or 9, and it
\* throws for every other argument (wrong length, first digit 0 to 5, a
\* character that is no digit, negative, zero, empty).
C11_PhoneAcceptance ==
    (valKind = "phone" /\ valPc = "returned") =>
        IF TenDigitMobile(valInput) # <<>>
        THEN /\ ~valResult.threw
             /\ valResult.value = Num(FALSE, TenDigitMobile(valInput))
        ELSE valResult.threw

(* ------------------------------------------------------------------ *)
(* Calls of errorMiddleware                                            *)
(* ------------------------------------------------------------------ *)
StorageCodes == {"22P02", "23505", "23503", "23502"}
TokenNames == {"JsonWebTokenError", "TokenExpiredError"}
TransportCodes == {"ECONNREFUSED", "ENOTFOUND", "ETIMEDOUT", "ECONNRESET"}

\* errors handed to errorMiddleware: statusCode 0 stands for no statusCode
ErrorInputs ==
    [code : {""} \cup StorageCodes \cup TransportCodes \cup {"23514"},
     name : {"Error"} \cup TokenNames,
     message : {"", "boom"} \cup ConnectionMessages,
     statusCode : {0, 400, 404}]

CallErrorMiddleware ==
    /\ valKind = "error" /\ valPc = "input"
    /\ valResult' = ErrorMiddleware(valInput)
    /\ valPc' = "returned"
    /\ UNCHANGED <<valKind, valInput, newsVars, appVars, httpVars, dbVars, poolVars>>

ErrorInit ==
    /\ NewsVarsInit /\ AppVarsInit /\ HttpVarsInit /\ DbVarsInit
    /\ valKind = "error"
    /\ valInput \in ErrorInputs
    /\ valPc = "input"
    /\ valResult = NotCalled

ErrorNext == CallErrorMiddleware

ErrorSpec == ErrorInit /\ [][ErrorNext]_vars

(* ------------------------------------------------------------------ *)
(* C14                                                                 *)
(* ------------------------------------------------------------------ *)
DatabaseConnectionAnswer ==
    [status |-> 503,
     message |-> "Database connection failed. Please try again later."]

\* the fixed answers of the storage codes and token names an error matches
FixedAnswers(err) ==
    {a \in {[sig |-> "22P02", message |-> "Invalid ID format provided"],
            [sig |-> "23505", message |-> "Duplicate entry already exists"],
            [sig |-> "23503", message |-> "Referenced record does not exist"],
            [sig |-> "23502", message |-> "Required field is missing"],
            [sig |-> "JsonWebTokenError",
             message |-> "Json Web Token is invalid, Try again."],
            [sig |-> "TokenExpiredError",
             message |-> "Json Web Token is expired, Try again."]} :
        a.sig \in {err.code, err.name}}

TransportSignature(err) ==
    err.code \in TransportCodes \/ err.message \in ConnectionMessages

ErrorReturned == valKind = "error" /\ valPc = "returned"

\* the message of an error as errorMiddleware reads it: an error raised
\* without message reads "Internal server error."
RawMessage(err) ==
    IF err.message = "" THEN "Internal server error." ELSE err.message

\* C14 as stated: a transport signature is answered 503 also when another
\* signature matches; otherwise a storage code or token name is answered
\* its fixed message with 400; otherwise an error without status is answered
\* 500 with its raw message and one with a status keeps status and message.
C14_MappingTransportFirst ==
    ErrorReturned =>
        IF TransportSignature(valInput)
        THEN valResult = DatabaseConnectionAnswer
        ELSE IF FixedAnswers(valInput) # {}
        THEN \E a \in FixedAnswers(valInput) :
                valResult = [status |-> 400, message |-> a.message]
        ELSE IF valInput.statusCode = 0
        THEN valResult = [status |-> 500, message |-> RawMessage(valInput)]
        ELSE valResult = [status |-> valInput.statusCode,
                          message |-> RawMessage(valInput)]

\* C14 (amended): a storage code is answered its fixed message with 400;
\* otherwise a token name is answered its fixed message with 400; otherwise
\* a transport signature is answered the connection message with 503;
\* otherwise an error without status is answered 500 and one with a status
\* keeps it, both with the raw message.
C14_MappingFirstMatch ==
    ErrorReturned =>
        IF valInput.code \in StorageCodes
        THEN \E a \in FixedAnswers(valInput) :
                /\ a.sig = valInput.code
                /\ valResult = [status |-> 400, message |-> a.message]
        ELSE IF valInput.name \in TokenNames
        THEN \E a \in FixedAnswers(valInput) :
                /\ a.sig = valInput.name
                /\ valResult = [status |-> 400, message |-> a.message]
        ELSE IF TransportSignature(valInput)
        THEN valResult = DatabaseConnectionAnswer
        ELSE valResult =
                [status |-> IF valInput.statusCode = 0 THEN 500
                            ELSE valInput.statusCode,
                 message |-> RawMessage(valInput)]

\* an error with a storage code and a connection message was answered 400
C14_Witness ==
    /\ ErrorReturned
    /\ valInput.code = "23505"
    /\ valInput.message = "read ECONNRESET"
    /\ valResult.status = 400

(* ------------------------------------------------------------------ *)
(* Request values of the user and job controllers: a text is named by  *)
(* a string and read as the JavaScript string of its characters        *)
(* ------------------------------------------------------------------ *)
UNDEF == "<undefined>"

Texts ==
    {"Ann", "Al", "a@x.co", "b@x.co", "b@x.c", "c@x.co", "bad", "9876543210",
     "12345", "Main St", "secret12", "newpass12", "short", "Job Seeker",
     "Employer", "Admin", "IT", "Law", "", "Dev", "Full-time", "Acme", "x"}

Literal(x) ==
    CASE x = "Ann" -> <<"A", "n", "n">>
      [] x = "Al" -> <<"A", "l">>
      [] x = "a@x.co" -> <<"a", "@", "x", ".", "c", "o">>
      [] x = "b@x.co" -> <<"b", "@", "x", ".", "c", "o">>
      [] x = "b@x.c" -> <<"b", "@", "x", ".", "c">>
      [] x = "c@x.co" -> <<"c", "@", "x", ".", "c", "o">>
      [] x = "bad" -> <<"b", "a", "d">>
      [] x = "9876543210" -> PhoneValid.s
      [] x = "12345" -> PhoneInvalid.s
      [] x = "Main St" -> <<"M", "a", "i", "n", " ", "S", "t">>
      [] x = "secret12" -> <<"s", "e", "c", "r", "e", "t", "1", "2">>
      [] x = "newpass12" -> <<"n", "e", "w", "p", "a", "s", "s", "1", "2">>
      [] x = "short" -> <<"s", "h", "o", "r", "t">>
      [] x = "Job Seeker" -> JobSeekerStr.s
      [] x = "Employer" -> EmployerStr.s
      [] x = "Admin" -> <<"A", "d", "m", "i", "n">>
      [] x = "IT" -> <<"I", "T">>
      [] x = "Law" -> <<"L", "a", "w">>
      [] x = "" -> <<>>
      [] x = "Dev" -> <<"D", "e", "v">>
      [] x = "Full-time" -> FullTimeStr.s
      [] x = "Acme" -> <<"A", "c", "m", "e">>
      [] x = "x" -> <<"x">>
      [] x = "n1" -> <<"n", "1">>
      [] x = "n2" -> <<"n", "2">>
      [] x = "n3" -> <<"n", "3">>
      [] x = "x.co" -> <<"x", ".", "c", "o">>
      [] x = "A@X" -> <<"A", "@", "X">>
      [] x = "c@" -> <<"c", "@">>
      [] x = "main" -> <<"m", "a", "i", "n">>
      [] x = "law" -> <<"l", "a", "w">>
      [] x = "Part-time" -> <<"P", "a", "r", "t", "-", "t", "i", "m", "e">>

\* the JavaScript value of a request value
Js(x) ==
    IF x = UNDEF THEN Undefined
    ELSE IF x = NULL THEN [t |-> "null"]
    ELSE Str(Literal(x))

\* a || null
OrNull(x) == IF Falsy(Js(x)) THEN NULL ELSE x

\* bcrypt.hash(password, 10) and bcrypt.compare(entered, hash)
BcryptHash(password) == "$2a$10$" \o password
BcryptCompare(entered, hash) == hash = BcryptHash(entered)

(* ------------------------------------------------------------------ *)
(* UserModel over rows with every column of the users table            *)
(* ------------------------------------------------------------------ *)
UserColumns ==
    {"name", "email", "phone", "address", "first_niche", "second_niche",
     "third_niche", "password", "resume_public_id", "resume_url",
     "cover_letter", "role", "created_at", "updated_at"}

UserNotNullColumns == {"name", "email", "phone", "address", "password", "role"}

UserIds == <<"n1", "n2", "n3">>

\* a storage error as node-postgres raises it
PgError(code, message) ==
    [code |-> code, name |-> "error", message |-> message, statusCode |-> 0]

\* the constraint of the users table a row violates, "" when none; others
\* are the rows the table holds besides it
UsersViolation(row, others) ==
    IF \E c \in UserNotNullColumns : row[c] = NULL THEN "23502"
    ELSE IF Len(Literal(row.name)) < 3 \/ Len(Literal(row.name)) > 30
    THEN "23514"
    ELSE IF row.role \notin {"Job Seeker", "Employer"} THEN "22P02"
    ELSE IF \E o \in others : o.email = row.email THEN "23505"
    ELSE IF ~EmailColumnCheck(Js(row.email)) THEN "23514"
    ELSE ""

ViolationMessage(code) ==
    CASE code = "23502" -> "null value violates not-null constraint"
      [] code = "23514" -> "new row violates check constraint"
      [] code = "22P02" -> "invalid input value for enum"
      [] code = "23505" -> "duplicate key value violates unique constraint"
      [] code = "23503" -> "insert or update violates foreign key constraint"
      [] code = "42701" -> "multiple assignments to same column"
      [] code = "42703" -> "column does not exist"

\* obj[k] of a JavaScript object, undefined for a missing property
Get(obj, k) == IF k \in DOMAIN obj THEN obj[k] ELSE UNDEF

\* result.rows[0] of SELECT * FROM users WHERE id = $1 on the table rows
StoredUser(rows, id) ==
    [c \in DOMAIN rows[id] \cup {"id"} |->
        IF c = "id" THEN id ELSE rows[id][c]]

\* UserModel.formatUser(user) for an object that exists
FormatUser(user) ==
    [id |-> Get(user, "id"), name |-> Get(user, "name"),
     email |-> Get(user, "email"), phone |-> Get(user, "phone"),
     address |-> Get(user, "address"),
     firstNiche |-> Get(user, "first_niche"),
     secondNiche |-> Get(user, "second_niche"),
     thirdNiche |-> Get(user, "third_niche"),
     password |-> Get(user, "password"),
     resumePublicId |-> Get(user, "resume_public_id"),
     resumeUrl |-> Get(user, "resume_url"),
     coverLetter |-> Get(user, "cover_letter"),
     role |-> Get(user, "role"), createdAt |-> Get(user, "created_at"),
     updatedAt |-> Get(user, "updated_at")]

\* variant of FormatUserResponse that forgets the delete
FormatUserResponseKeepAll(user) == FormatUser(user)

\* UserModel.formatUserResponse(user): delete formattedUser.password
FormatUserResponse(user) ==
    LET formattedUser == FormatUser(user)
    IN [f \in DOMAIN formattedUser \ {"password"} |-> formattedUser[f]]

\* UserModel.findByEmail(email): the id of the row, NULL when there is none
FindByEmail(email) ==
    IF \E u \in DOMAIN users : users[u].email = email
    THEN CHOOSE u \in DOMAIN users : users[u].email = email
    ELSE NULL

\* UserModel.create(userData): the row INSERT INTO users would store
UserCreateRow(userData) ==
    [name |-> userData.name, email |-> userData.email,
     phone |-> userData.phone, address |-> userData.address,
     password |-> BcryptHash(userData.password), role |-> userData.role,
     first_niche |-> OrNull(userData.firstNiche),
     second_niche |-> OrNull(userData.secondNiche),
     third_niche |-> OrNull(userData.thirdNiche),
     cover_letter |-> OrNull(userData.coverLetter),
     resume_public_id |-> NULL, resume_url |-> NULL,
     created_at |-> now, updated_at |-> now]

\* UserModel.create(userData): [ok, code, id, rows]
UserCreate(userData) ==
    LET row == UserCreateRow(userData)
        code == UsersViolation(row, {users[u] : u \in DOMAIN users})
        id == UserIds[Cardinality(DOMAIN users) + 1]
    IN IF code # ""
       THEN [ok |-> FALSE, code |-> code, id |-> NULL, rows |-> users]
       ELSE [ok |-> TRUE, code |-> "", id |-> id,
             rows |-> [u \in DOMAIN users \cup {id} |->
                          IF u = id THEN row ELSE users[u]]]

(* ------------------------------------------------------------------ *)
(* ApplicationModel: the lists of the two parties                      *)
(* ------------------------------------------------------------------ *)
\* rows selected by findByJobSeeker(jobSeekerUserId) from the table rows
FindByJobSeeker(rows, jobSeekerUserId) ==
    {a \in DOMAIN rows :
        /\ rows[a].jobId \in DOMAIN jobs
        /\ rows[a].employerUserId \in DOMAIN users
        /\ rows[a].jobSeekerUserId = jobSeekerUserId
        /\ rows[a].deletedByJobSeeker = FALSE}

\* rows selected by findByEmployer(employerUserId) from the table rows
FindByEmployer(rows, employerUserId) ==
    {a \in DOMAIN rows :
        /\ rows[a].jobId \in DOMAIN jobs
        /\ rows[a].jobSeekerUserId \in DOMAIN users
        /\ rows[a].employerUserId = employerUserId
        /\ rows[a].deletedByEmployer = FALSE}

(* ------------------------------------------------------------------ *)
(* C16                                                                 *)
(* ------------------------------------------------------------------ *)
\* slot p answers 200 to a deleteApplication in this step
DeleteSucceeds(p) ==
    /\ reqs[p].pc \in {"deleteByJobSeeker", "deleteByEmployer"}
    /\ reqs'[p].pc = "done"
    /\ reqs'[p].status = 200

C16Step ==
    \A p \in ReqSlots :
        DeleteSucceeds(p) =>
            LET a == reqs[p].target
                old == applications[a]
            IN /\ DOMAIN applications' = DOMAIN applications
               /\ \A x \in DOMAIN applications \ {a} :
                     applications'[x] = applications[x]
               /\ IF reqs[p].pc = "deleteByJobSeeker"
                  THEN /\ applications'[a] =
                             [old EXCEPT !.deletedByJobSeeker = TRUE]
                       /\ a \in FindByEmployer(applications,
                                               old.employerUserId)
                            => a \in FindByEmployer(applications',
                                                    old.employerUserId)
                  ELSE /\ applications'[a] =
                             [old EXCEPT !.deletedByEmployer = TRUE]
                       /\ a \in FindByJobSeeker(applications,
                                                old.jobSeekerUserId)
                            => a \in FindByJobSeeker(applications',
                                                     old.jobSeekerUserId)

\* C16: a successful deleteApplication by the job seeker sets only
\* deletedByJobSeeker and one by the employer only deletedByEmployer; the
\* other flag, the other columns and the other rows are unchanged, the row
\* stays in storage and stays in the other party's list.
C16_SoftDeletesIndependent == [][C16Step]_vars

\* a row deleted by its job seeker alone is still listed for its employer
C16_Witness ==
    \E a \in DOMAIN applications :
        /\ applications[a].deletedByJobSeeker
        /\ ~applications[a].deletedByEmployer
        /\ a \in FindByEmployer(applications, applications[a].employerUserId)
        /\ a \notin FindByJobSeeker(applications,
                                    applications[a].jobSeekerUserId)
        /\ \E p \in ReqSlots :
              /\ reqs[p].op = "delete" /\ reqs[p].target = a
              /\ reqs[p].pc = "done" /\ reqs[p].status = 200

(* ------------------------------------------------------------------ *)
(* C17                                                                 *)
(* ------------------------------------------------------------------ *)
\* C17: once the job seeker and the employer have both deleted an
\* application through deleteApplication the row is gone from storage, so
\* no stored row carries both deletion flags.
C17_RemovedAfterBothDeletes ==
    \A a \in DOMAIN applications :
        ~(applications[a].deletedByJobSeeker
            /\ applications[a].deletedByEmployer)

(* ------------------------------------------------------------------ *)
(* Startup: initializeDatabase over the tables of the database         *)
(* ------------------------------------------------------------------ *)
MaxRows == 2
MaxStarts == 2

RowIds == 1..MaxRows

\* the table a Sequelize table is copied into, and the final name of it
NewOf(t) ==
    CASE t \in {"Users", "users"} -> "users_new"
      [] t \in {"Jobs", "jobs"} -> "jobs_new"
      [] t \in {"Applications", "applications"} -> "applications_new"

\* CREATE TABLE IF NOT EXISTS t
CreateTableIfNotExists(d, t) ==
    IF d[t].exists THEN d ELSE [d EXCEPT ![t] = EmptyTable]

\* DROP TABLE IF EXISTS t CASCADE
DropTableIfExists(d, t) == [d EXCEPT ![t] = Absent]

\* checkExistingSchema
HasSequelizeTables(d) == \E t \in SequelizeTables : d[t].exists
HasRawTables(d) == \E t \in RawTables : d[t].exists

\* createRawTables: users_new, jobs_new and applications_new
CreateRawTables(d) ==
    [t \in TableNames |->
        IF t \in NewTables /\ ~d[t].exists THEN EmptyTable ELSE d[t]]

\* migrateTableData: INSERT INTO t_new SELECT ... FROM "T" WHERE NOT EXISTS
\* (same id); a statement that fails is logged and copies nothing. copied
\* is the set of Sequelize tables whose statement succeeds
MigrateTableData(d, copied) ==
    [t \in TableNames |->
        IF t \in NewTables
        THEN LET from == CHOOSE s \in SequelizeTables : NewOf(s) = t
             IN IF from \in copied /\ d[from].exists /\ d[t].exists
                THEN [d[t] EXCEPT !.rows = @ \cup d[from].rows]
                ELSE d[t]
        ELSE d[t]]

\* migrateFromSequelize
MigrateFromSequelize(d, copied) ==
    IF HasSequelizeTables(d)
    THEN MigrateTableData(CreateRawTables(d), copied)
    ELSE IF HasRawTables(d) THEN d
    ELSE CreateRawTables(d)

\* ALTER TABLE t_new RENAME TO t, for the raw tables in the order of the
\* code; the first statement that fails ends the function
RenameNewTables(d, todo) ==
    LET RECURSIVE Go(_, _)
        Go(x, ts) ==
            IF ts = <<>> THEN [threw |-> FALSE, db |-> x]
            ELSE LET t == Head(ts)
                 IN IF ~x[NewOf(t)].exists \/ x[t].exists
                    THEN [threw |-> TRUE, db |-> x]
                    ELSE Go([x EXCEPT ![t] = x[NewOf(t)],
                                      ![NewOf(t)] = Absent], Tail(ts))
    IN Go(d, todo)

\* finalizeTableMigration: the three drops, the three renames, then the
\* foreign keys and indexes
FinalizeTableMigration(d, constraintsFail) ==
    LET dropped == DropTableIfExists(DropTableIfExists(
                       DropTableIfExists(d, "users"), "jobs"), "applications")
        renamed == RenameNewTables(dropped,
                                   <<"users", "jobs", "applications">>)
    IN IF renamed.threw THEN renamed
       ELSE [threw |-> constraintsFail, db |-> renamed.db]

\* createBasicTables
CreateBasicTables(d) ==
    CreateTableIfNotExists(CreateTableIfNotExists(
        CreateTableIfNotExists(d, "users"), "jobs"), "applications")

\* initializeDatabase
InitializeDatabase(d, copied, constraintsFail) ==
    LET finalized == FinalizeTableMigration(MigrateFromSequelize(d, copied),
                                            constraintsFail)
    IN IF finalized.threw THEN CreateBasicTables(finalized.db)
       ELSE finalized.db

\* a server start
StartServer ==
    /\ starts < MaxStarts
    /\ starts' = starts + 1
    /\ \E copied \in SUBSET SequelizeTables, constraintsFail \in BOOLEAN :
          db' = InitializeDatabase(db, copied, constraintsFail)
    /\ UNCHANGED <<newsVars, appVars, valVars, httpVars, poolVars>>

\* the running server stores a row
InsertRow(t, r) ==
    /\ starts > 0
    /\ t \in RawTables /\ db[t].exists
    /\ r \notin db[t].rows
    /\ db' = [db EXCEPT ![t].rows = @ \cup {r}]
    /\ UNCHANGED <<starts, newsVars, appVars, valVars, httpVars, poolVars>>

\* databases the server may be started on: one without tables, one with
\* the raw tables, one with the Sequelize tables
StartDatabases ==
    {[t \in TableNames |-> Absent]}
    \cup {[t \in TableNames |->
             IF t \in RawTables THEN [exists |-> TRUE, rows |-> rows[t]]
             ELSE Absent] : rows \in [RawTables -> SUBSET RowIds]}
    \cup {[t \in TableNames |->
             IF t \in SequelizeTables
             THEN [exists |-> TRUE, rows |-> rows[t]]
             ELSE Absent] : rows \in [SequelizeTables -> SUBSET RowIds]}

StartInit ==
    /\ NewsVarsInit /\ AppVarsInit /\ ValVarsInit /\ HttpVarsInit
    /\ db \in StartDatabases
    /\ starts = 0
    /\ PoolVarsInit

StartNext ==
    \/ StartServer
    \/ \E t \in RawTables, r \in RowIds : InsertRow(t, r)

StartSpec == StartInit /\ [][StartNext]_vars

(* ------------------------------------------------------------------ *)
(* C15                                                                 *)
(* ------------------------------------------------------------------ *)
C15Step ==
    starts' = starts + 1 =>
        \A t \in RawTables :
            db[t].exists => db'[t].exists /\ db[t].rows \subseteq db'[t].rows

\* C15: a server start on a database that holds the users, jobs and
\* applications tables leaves every row of those tables in place, at the
\* first start and at every later one.
C15_StartupPreservesRows == [][C15Step]_vars

(* ------------------------------------------------------------------ *)
(* updateById of the three models: the statement it builds             *)
(* ------------------------------------------------------------------ *)
UserConversions ==
    [firstNiche |-> "first_niche", secondNiche |-> "second_niche",
     thirdNiche |-> "third_niche", resumePublicId |-> "resume_public_id",
     resumeUrl |-> "resume_url", coverLetter |-> "cover_letter",
     createdAt |-> "created_at", updatedAt |-> "updated_at"]

JobConversions ==
    [jobType |-> "job_type", companyName |-> "company_name",
     hiringMultipleCandidates |-> "hiring_multiple_candidates",
     personalWebsiteTitle |-> "personal_website_title",
     personalWebsiteUrl |-> "personal_website_url", jobNiche |-> "job_niche",
     newsLettersSent |-> "newsletters_sent", jobPostedOn |-> "job_posted_on",
     postedBy |-> "posted_by", createdAt |-> "created_at",
     updatedAt |-> "updated_at"]

ApplicationConversions ==
    [jobSeekerUserId |-> "job_seeker_user_id",
     jobSeekerName |-> "job_seeker_name",
     jobSeekerEmail |-> "job_seeker_email",
     jobSeekerPhone |-> "job_seeker_phone",
     jobSeekerAddress |-> "job_seeker_address",
     resumePublicId |-> "resume_public_id", resumeUrl |-> "resume_url",
     coverLetter |-> "cover_letter", jobSeekerRole |-> "job_seeker_role",
     employerUserId |-> "employer_user_id", employerRole |-> "employer_role",
     jobId |-> "job_id", jobTitle |-> "job_title",
     deletedByJobSeeker |-> "deleted_by_job_seeker",
     deletedByEmployer |-> "deleted_by_employer",
     createdAt |-> "created_at", updatedAt |-> "updated_at"]

\* conversions[str] || str
ConvertToSnakeCase(conversions, str) ==
    IF str \in DOMAIN conversions THEN conversions[str] ELSE str

\* variant of UpdateFields that also skips the fields set to null
UpdateFieldsSkipNull(updateData) ==
    {k \in DOMAIN updateData : updateData[k] \notin {UNDEF, NULL}}

\* the keys of updateData for which value !== undefined
UpdateFields(updateData) ==
    {k \in DOMAIN updateData : updateData[k] # UNDEF}

\* the error of UPDATE t SET <fields>, updated_at = NOW() before any row is
\* read: a column the table does not have, or a column assigned twice
UpdateStatementError(conversions, columns, updateData) ==
    LET fields == UpdateFields(updateData)
        cols == {ConvertToSnakeCase(conversions, k) : k \in fields}
    IN IF cols \ columns # {} THEN "42703"
       ELSE IF "updated_at" \in cols
                \/ Cardinality(cols) < Cardinality(fields) THEN "42701"
       ELSE ""

\* the row after SET <fields>, updated_at = NOW(), values being the values
\* bound to the fields
UpdatedRow(conversions, row, values, t) ==
    [c \in DOMAIN row |->
        IF c = "updated_at" THEN t
        ELSE IF \E k \in DOMAIN values :
                    ConvertToSnakeCase(conversions, k) = c
        THEN values[CHOOSE k \in DOMAIN values :
                        ConvertToSnakeCase(conversions, k) = c]
        ELSE row[c]]

UpdateThrew(err, rows) ==
    [threw |-> TRUE, error |-> err, found |-> FALSE, rows |-> rows]
UpdateReturned(found, rows) ==
    [threw |-> FALSE, error |-> PgError("", ""), found |-> found,
     rows |-> rows]

\* the outcome of the statement of updateById on the table rows; violation is
\* the constraint the updated row would violate
UpdateStatement(conversions, columns, rows, id, updateData, values, violation) ==
    LET code == UpdateStatementError(conversions, columns, updateData)
    IN IF code # "" THEN UpdateThrew(PgError(code, ViolationMessage(code)),
                                     rows)
       ELSE IF id \notin DOMAIN rows THEN UpdateReturned(FALSE, rows)
       ELSE IF violation # ""
       THEN UpdateThrew(PgError(violation, ViolationMessage(violation)), rows)
       ELSE UpdateReturned(TRUE,
                [rows EXCEPT ![id] =
                    UpdatedRow(conversions, rows[id], values, now)])

\* UserModel.updateById(id, updateData)
UserUpdateById(id, updateData) ==
    LET fields == UpdateFields(updateData)
        values == [k \in fields |->
                      IF k = "password" THEN BcryptHash(updateData[k])
                      ELSE updateData[k]]
    IN IF "password" \in fields /\ updateData.password = NULL
       THEN UpdateThrew(PlainError("data and salt arguments required"), users)
       ELSE IF fields = {}
       THEN UpdateThrew(PlainError("No fields to update"), users)
       ELSE UpdateStatement(UserConversions, UserColumns, users, id,
                updateData, values,
                IF id \in DOMAIN users
                THEN UsersViolation(
                        UpdatedRow(UserConversions, users[id], values, now),
                        {users[u] : u \in DOMAIN users \ {id}})
                ELSE "")

(* ------------------------------------------------------------------ *)
(* JobModel and ApplicationModel over rows with every column           *)
(* ------------------------------------------------------------------ *)
JobColumns ==
    {"title", "job_type", "location", "company_name", "introduction",
     "responsibilities", "qualifications", "offers", "salary",
     "hiring_multiple_candidates", "personal_website_title",
     "personal_website_url", "job_niche", "newsletters_sent",
     "job_posted_on", "posted_by", "created_at", "updated_at"}

JobNotNullColumns ==
    {"title", "job_type", "location", "company_name", "responsibilities",
     "qualifications", "salary", "job_niche", "posted_by"}

JobTypes == {"Full-time", "Part-time"}
BooleanTexts == {"true", "false"}

\* the constraint of the jobs table a row violates, "" when none
JobsViolation(row) ==
    IF \E c \in JobNotNullColumns : row[c] = NULL THEN "23502"
    ELSE IF row.job_type \notin JobTypes THEN "22P02"
    ELSE IF row.hiring_multiple_candidates \notin {"Yes", "No", NULL}
    THEN "22P02"
    ELSE IF row.newsletters_sent \notin BooleanTexts \cup {NULL} THEN "22P02"
    ELSE IF row.posted_by \notin DOMAIN users THEN "23503"
    ELSE ""

\* JobModel.updateById(id, updateData)
JobUpdateById(id, updateData) ==
    LET fields == UpdateFields(updateData)
        values == [k \in fields |-> updateData[k]]
    IN IF fields = {}
       THEN UpdateThrew(PlainError("No fields to update"), jobs)
       ELSE UpdateStatement(JobConversions, JobColumns, jobs, id, updateData,
                values,
                IF id \in DOMAIN jobs
                THEN JobsViolation(
                        UpdatedRow(JobConversions, jobs[id], values, now))
                ELSE "")

ApplicationColumns ==
    {"job_seeker_user_id", "job_seeker_name", "job_seeker_email",
     "job_seeker_phone", "job_seeker_address", "resume_public_id",
     "resume_url", "cover_letter", "job_seeker_role", "employer_user_id",
     "employer_role", "job_id", "job_title", "deleted_by_job_seeker",
     "deleted_by_employer", "created_at", "updated_at"}

ApplicationNotNullColumns ==
    {"job_seeker_user_id", "job_seeker_name", "job_seeker_email",
     "job_seeker_phone", "job_seeker_address", "cover_letter",
     "job_seeker_role", "employer_user_id", "employer_role", "job_id",
     "job_title"}

\* the constraint of the applications table a row violates, "" when none
ApplicationsViolation(row) ==
    IF \E c \in ApplicationNotNullColumns : row[c] = NULL THEN "23502"
    ELSE IF row.deleted_by_job_seeker \notin BooleanTexts \cup {NULL}
    THEN "22P02"
    ELSE IF row.deleted_by_employer \notin BooleanTexts \cup {NULL}
    THEN "22P02"
    ELSE ""

\* ApplicationModel.updateById(id, updateData)
ApplicationUpdateById(id, updateData) ==
    LET fields == UpdateFields(updateData)
        values == [k \in fields |-> updateData[k]]
    IN IF fields = {}
       THEN UpdateThrew(PlainError("No fields to update"), applications)
       ELSE UpdateStatement(ApplicationConversions, ApplicationColumns,
                applications, id, updateData, values,
                IF id \in DOMAIN applications
                THEN ApplicationsViolation(
                        UpdatedRow(ApplicationConversions, applications[id],
                                   values, now))
                ELSE "")


(* ------------------------------------------------------------------ *)
(* updateById applied to stored rows                                   *)
(* ------------------------------------------------------------------ *)
SeekerRow ==
    [name |-> "Ann", email |-> "a@x.co", phone |-> "9876543210",
     address |-> "Main St", password |-> BcryptHash("secret12"),
     role |-> "Job Seeker", first_niche |-> "IT", second_niche |-> "Law",
     third_niche |-> "Dev", cover_letter |-> "x",
     resume_public_id |-> NULL, resume_url |-> NULL,
     created_at |-> -1, updated_at |-> -1]

EmployerRow ==
    [name |-> "Acme", email |-> "b@x.co", phone |-> "9876543210",
     address |-> "Main St", password |-> BcryptHash("secret12"),
     role |-> "Employer", first_niche |-> NULL, second_niche |-> NULL,
     third_niche |-> NULL, cover_letter |-> NULL,
     resume_public_id |-> NULL, resume_url |-> NULL,
     created_at |-> -1, updated_at |-> -1]

JobRow(postedBy) ==
    [title |-> "Dev", job_type |-> "Full-time", location |-> "Main St",
     company_name |-> "Acme", introduction |-> NULL,
     responsibilities |-> "x", qualifications |-> "x", offers |-> "x",
     salary |-> "12345", hiring_multiple_candidates |-> "No",
     personal_website_title |-> NULL, personal_website_url |-> NULL,
     job_niche |-> "IT", newsletters_sent |-> "false",
     job_posted_on |-> -1, posted_by |-> postedBy,
     created_at |-> -1, updated_at |-> -1]

ApplicationRow ==
    [job_seeker_user_id |-> "n1", job_seeker_name |-> "Ann",
     job_seeker_email |-> "a@x.co", job_seeker_phone |-> "9876543210",
     job_seeker_address |-> "Main St", resume_public_id |-> NULL,
     resume_url |-> "x", cover_letter |-> "x",
     job_seeker_role |-> "Job Seeker", employer_user_id |-> "n2",
     employer_role |-> "Employer", job_id |-> "j1", job_title |-> "Dev",
     deleted_by_job_seeker |-> "false", deleted_by_employer |-> "false",
     created_at |-> -1, updated_at |-> -1]

\* payloads with at most two of the keys, each undefined, null or one of
\* the texts
Payloads(keys, texts) ==
    UNION {[K -> {UNDEF, NULL} \cup texts] :
              K \in {S \in SUBSET keys : Cardinality(S) <= 2}}

UserUpdateInputs ==
    Payloads({"name", "firstNiche", "coverLetter", "password", "updatedAt",
              "first_niche", "nickname"}, {"Law", "Al"})

JobUpdateInputs ==
    Payloads({"title", "jobType", "offers", "newsLettersSent", "updatedAt",
              "job_type", "nickname"}, {"Full-time", "true"})

ApplicationUpdateInputs ==
    Payloads({"jobSeekerName", "resumeUrl", "coverLetter",
              "deletedByJobSeeker", "updatedAt", "resume_url", "nickname"},
             {"Dev", "true"})

UpdateInputs ==
    [model : {"user"}, id : {"n1", "n3"}, data : UserUpdateInputs]
    \cup [model : {"job"}, id : {"j1", "j2"}, data : JobUpdateInputs]
    \cup [model : {"application"}, id : {"a1", "a2"},
          data : ApplicationUpdateInputs]

UpdateOutcome(r) ==
    [threw |-> r.threw, message |-> r.error.message, code |-> r.error.code,
     found |-> r.found]

CallUpdateById ==
    /\ valKind = "update"
    /\ valPc = "input"
    /\ LET r == CASE valInput.model = "user" ->
                        UserUpdateById(valInput.id, valInput.data)
                  [] valInput.model = "job" ->
                        JobUpdateById(valInput.id, valInput.data)
                  [] valInput.model = "application" ->
                        ApplicationUpdateById(valInput.id, valInput.data)
       IN /\ users' = IF valInput.model = "user" THEN r.rows ELSE users
          /\ jobs' = IF valInput.model = "job" THEN r.rows ELSE jobs
          /\ applications' =
                IF valInput.model = "application" THEN r.rows
                ELSE applications
          /\ valResult' = UpdateOutcome(r)
    /\ valPc' = "returned"
    /\ UNCHANGED <<jobSeq, now, ticks, faults, runs, appSeq, reqs, reqCount,
                   valKind, valInput, httpVars, dbVars, poolVars>>

UpdateInit ==
    /\ users = [u \in {"n1", "n2"} |->
                   IF u = "n1" THEN SeekerRow ELSE EmployerRow]
    /\ jobs = [j \in {"j1"} |-> JobRow("n2")]
    /\ applications = [a \in {"a1"} |-> ApplicationRow]
    /\ jobSeq = 1
    /\ appSeq = 1
    /\ now = 0
    /\ ticks = 0
    /\ faults = 0
    /\ runs = [r \in RunIds |-> IdleRun]
    /\ reqs = [p \in ReqSlots |-> IdleReq]
    /\ reqCount = 0
    /\ valKind = "update"
    /\ valInput \in UpdateInputs
    /\ valPc = "input"
    /\ valResult = NotCalled
    /\ HttpVarsInit
    /\ DbVarsInit

UpdateNext == CallUpdateById

UpdateSpec == UpdateInit /\ [][UpdateNext]_vars


(* ------------------------------------------------------------------ *)
(* C18                                                                 *)
(* ------------------------------------------------------------------ *)
UpdateCalled == valKind = "update" /\ valPc = "input" /\ valPc' = "returned"

\* keys of the payload that carry a value, null included
PayloadFields == {k \in DOMAIN valInput.data : valInput.data[k] # UNDEF}

\* keys that name a nullable text column of the model's table
NullableKeys ==
    CASE valInput.model = "user" -> {"firstNiche", "coverLetter"}
      [] valInput.model = "job" -> {"offers"}
      [] valInput.model = "application" -> {"resumeUrl"}

C18Table(us, js, as) ==
    CASE valInput.model = "user" -> us
      [] valInput.model = "job" -> js
      [] valInput.model = "application" -> as

C18Column(k) ==
    ConvertToSnakeCase(
        CASE valInput.model = "user" -> UserConversions
          [] valInput.model = "job" -> JobConversions
          [] valInput.model = "application" -> ApplicationConversions, k)

C18Stored(k) ==
    IF valInput.model = "user" /\ k = "password"
    THEN BcryptHash(valInput.data[k]) ELSE valInput.data[k]

C18Step ==
    UpdateCalled =>
        LET old == C18Table(users, jobs, applications)
            new == C18Table(users', jobs', applications')
            id == valInput.id
            out == valResult'
        IN /\ PayloadFields = {} =>
                 out.threw /\ out.message = "No fields to update"
           /\ out.threw \/ ~out.found => new = old
           /\ id \in DOMAIN old /\ PayloadFields # {}
                 /\ PayloadFields \subseteq NullableKeys
                 => ~out.threw /\ out.found
           /\ ~out.threw /\ out.found =>
                 /\ id \in DOMAIN old
                 /\ DOMAIN new = DOMAIN old
                 /\ \A x \in DOMAIN old \ {id} : new[x] = old[x]
                 /\ DOMAIN new[id] = DOMAIN old[id]
                 /\ \A c \in DOMAIN old[id] \ {"updated_at"} :
                       IF \E k \in PayloadFields : C18Column(k) = c
                       THEN \A k \in PayloadFields :
                               C18Column(k) = c => new[id][c] = C18Stored(k)
                       ELSE new[id][c] = old[id][c]
           /\ valInput.model # "user" => users' = users
           /\ valInput.model # "job" => jobs' = jobs
           /\ valInput.model # "application" => applications' = applications

\* C18: updateById(id, data) of each model writes exactly the fields of data
\* whose value is not undefined, null included, leaves every other column
\* except updated_at as it was, and with no such field throws "No fields to
\* update" and leaves storage as it was
C18_PartialUpdate == [][C18Step]_vars

C18_Witness ==
    /\ valKind = "update"
    /\ valPc = "returned"
    /\ valInput.model = "user"
    /\ valInput.id = "n1"
    /\ valInput.data = [firstNiche |-> NULL, name |-> UNDEF]
    /\ ~valResult.threw
    /\ valResult.found
    /\ users["n1"].first_niche = NULL
    /\ users["n1"].name = "Ann"
    /\ users["n1"].updated_at = now


(* ------------------------------------------------------------------ *)
(* Requests to the user and job routes: one action per request, from   *)
(* isAuthenticated to the response                                     *)
(* ------------------------------------------------------------------ *)
MaxHttp == 2        \* user and job requests received in one behaviour

\* the storage transport refusing a connection during a query
TransportError ==
    [code |-> "ECONNREFUSED", name |-> "Error",
     message |-> "connect ECONNREFUSED", statusCode |-> 0]

\* what jwt.verify throws for a token it cannot verify
JwtError ==
    [code |-> "", name |-> "JsonWebTokenError", message |-> "jwt malformed",
     statusCode |-> 0]

\* which storage call of a request the transport fails
FaultPoints == {"none", "auth", "controller"}

\* next(err): the response errorMiddleware sends; raised is the storage or
\* token failure that led to err
Passed(op, err, raised) ==
    LET r == ErrorMiddleware(err)
    IN [op |-> op, status |-> r.status,
        body |-> [success |-> "false", message |-> r.message],
        raised |-> raised]

\* an error thrown by a storage call and left to catchAsyncErrors
Thrown(op, err) ==
    Passed(op, err, IF err.code # "" THEN err ELSE NotRaised)

\* res.status(status).json(body)
Json(op, status, body) ==
    [op |-> op, status |-> status, body |-> body, raised |-> NotRaised]

\* sendToken(user, statusCode, res, message)
SendToken(op, user, statusCode, message) ==
    Json(op, statusCode,
         [success |-> "true", user |-> user, message |-> message,
          token |-> "jwt:" \o user.id])

\* cookies a request can carry: none, one that does not verify, or the one
\* issued to a stored user
Tokens == {"none", "bad"} \cup DOMAIN users

\* isAuthenticated: [ok, user, error, raised]
IsAuthenticated(token, fault) ==
    LET reject(err, raised) ==
            [ok |-> FALSE, user |-> FormatUser([id |-> NULL]),
             error |-> err, raised |-> raised]
        caught == ErrorHandler("Invalid or expired token.", 401)
    IN IF token = "none"
       THEN reject(ErrorHandler("User is not authenticated.", 400), NotRaised)
       ELSE IF token = "bad" THEN reject(caught, JwtError)
       ELSE IF fault = "auth" THEN reject(caught, TransportError)
       ELSE IF token \notin DOMAIN users
       THEN reject(ErrorHandler("User not found.", 404), NotRaised)
       ELSE [ok |-> TRUE, user |-> FormatUser(StoredUser(users, token)),
             error |-> NotRaised, raised |-> NotRaised]

\* the outcome of a handler: the response and the tables after it
Outcome(resp, us, js) == [response |-> resp, users |-> us, jobs |-> js]
Unchanged(resp) == Outcome(resp, users, jobs)

RegisterKeys ==
    {"name", "email", "phone", "address", "password", "role", "firstNiche",
     "secondNiche", "thirdNiche", "coverLetter"}

\* register
Register(body, fault) ==
    LET js == [k \in DOMAIN body |-> Js(body[k])]
        validationErrors ==
            ValidateUserData([k \in RegisterKeys \ {"coverLetter"} |-> js[k]])
        phoneNumber == ConvertPhoneToNumber(js.phone)
        created == UserCreate(body)
        rewrap(err, raised) ==
            Unchanged(Passed("register", ErrorHandler(err.message, 500),
                             raised))
        reject(message) ==
            Unchanged(Passed("register", ErrorHandler(message, 400),
                             NotRaised))
    IN IF \E k \in {"name", "email", "phone", "address", "password", "role"} :
             Falsy(js[k])
       THEN reject("All fields are required.")
       ELSE IF body.role = "Job Seeker"
                /\ (Falsy(js.firstNiche) \/ Falsy(js.secondNiche)
                      \/ Falsy(js.thirdNiche))
       THEN reject("Please provide your preferred job niches.")
       ELSE IF validationErrors.threw
       THEN rewrap(PlainError(validationErrors.message), NotRaised)
       ELSE IF Len(validationErrors.errors) > 0
       THEN reject(Join(validationErrors.errors))
       ELSE IF fault = "controller"
       THEN rewrap(TransportError, TransportError)
       ELSE IF FindByEmail(body.email) # NULL
       THEN reject("Email is already registered.")
       ELSE IF phoneNumber.threw THEN reject(phoneNumber.message)
       ELSE IF ~created.ok
       THEN rewrap(PgError(created.code, ViolationMessage(created.code)),
                   PgError(created.code, ViolationMessage(created.code)))
       ELSE Outcome(
               SendToken("register",
                   FormatUserResponse(
                       FormatUser(StoredUser(created.rows, created.id))),
                   201, "User Registered"),
               created.rows, jobs)

\* login
Login(body, fault) ==
    LET js == [k \in DOMAIN body |-> Js(body[k])]
        id == FindByEmail(body.email)
        user == FormatUser(StoredUser(users, id))
        reject(message) ==
            Unchanged(Passed("login", ErrorHandler(message, 400), NotRaised))
    IN IF Falsy(js.role) \/ Falsy(js.email) \/ Falsy(js.password)
       THEN reject("Email, password, and role are required.")
       ELSE IF fault = "controller"
       THEN Unchanged(Thrown("login", TransportError))
       ELSE IF id = NULL THEN reject("Invalid email or password.")
       ELSE IF ~BcryptCompare(body.password, user.password)
       THEN reject("Invalid email or password.")
       ELSE IF user.role # body.role THEN reject("Invalid user role.")
       ELSE Unchanged(SendToken("login", FormatUserResponse(user), 200,
                                "User logged in successfully."))

\* getUser behind isAuthenticated
GetUser(token, fault) ==
    LET auth == IsAuthenticated(token, fault)
    IN IF ~auth.ok
       THEN Unchanged(Passed("getUser", auth.error, auth.raised))
       ELSE IF fault = "controller"
       THEN Unchanged(Thrown("getUser", TransportError))
       ELSE Unchanged(Json("getUser", 200,
               [success |-> "true",
                user |-> FormatUserResponse(
                            FormatUser(StoredUser(users, auth.user.id)))]))


\* updateProfile behind isAuthenticated
UpdateProfile(token, fault, body) ==
    LET auth == IsAuthenticated(token, fault)
        js == [k \in DOMAIN body |-> Js(body[k])]
        phoneNumber == ConvertPhoneToNumber(js.phone)
        newUserData ==
            [name |-> body.name, email |-> body.email,
             phone |-> IF Falsy(js.phone) THEN UNDEF ELSE body.phone,
             address |-> body.address, coverLetter |-> body.coverLetter,
             firstNiche |-> body.firstNiche,
             secondNiche |-> body.secondNiche,
             thirdNiche |-> body.thirdNiche]
        updated == UserUpdateById(auth.user.id, newUserData)
    IN IF ~auth.ok
       THEN Unchanged(Passed("updateProfile", auth.error, auth.raised))
       ELSE IF ~Falsy(js.phone) /\ phoneNumber.threw
       THEN Unchanged(Passed("updateProfile",
                             ErrorHandler(phoneNumber.message, 400),
                             NotRaised))
       ELSE IF auth.user.role = "Job Seeker"
                /\ (Falsy(js.firstNiche) \/ Falsy(js.secondNiche)
                      \/ Falsy(js.thirdNiche))
       THEN Unchanged(Passed("updateProfile",
               ErrorHandler("Please provide your all preferred job niches.",
                            400), NotRaised))
       ELSE IF fault = "controller"
       THEN Unchanged(Thrown("updateProfile", TransportError))
       ELSE IF updated.threw
       THEN Unchanged(Thrown("updateProfile", updated.error))
       ELSE IF ~updated.found
       THEN Unchanged(Passed("updateProfile",
                             ErrorHandler("Failed to update profile.", 500),
                             NotRaised))
       ELSE Outcome(
               Json("updateProfile", 200,
                    [success |-> "true", message |-> "Profile updated.",
                     user |-> FormatUserResponse(
                                 FormatUser(StoredUser(updated.rows,
                                                       auth.user.id)))]),
               updated.rows, jobs)

\* updatePassword behind isAuthenticated
UpdatePassword(token, fault, body) ==
    LET auth == IsAuthenticated(token, fault)
        js == [k \in DOMAIN body |-> Js(body[k])]
        updated == UserUpdateById(auth.user.id,
                                  [password |-> body.newPassword])
        reject(message, status) ==
            Unchanged(Passed("updatePassword", ErrorHandler(message, status),
                             NotRaised))
    IN IF ~auth.ok
       THEN Unchanged(Passed("updatePassword", auth.error, auth.raised))
       ELSE IF Falsy(js.oldPassword) \/ Falsy(js.newPassword)
       THEN reject("Please provide old password and new password.", 400)
       ELSE IF fault = "controller"
       THEN Unchanged(Thrown("updatePassword", TransportError))
       ELSE IF ~BcryptCompare(body.oldPassword, auth.user.password)
       THEN reject("Old password is incorrect.", 400)
       ELSE IF updated.threw
       THEN Unchanged(Thrown("updatePassword", updated.error))
       ELSE IF ~updated.found
       THEN reject("Failed to update password.", 500)
       ELSE Outcome(
               Json("updatePassword", 200,
                    [success |-> "true",
                     message |-> "Password updated successfully."]),
               updated.rows, jobs)

\* id of the n-th row inserted into jobs
JobKey(n) == "j" \o ToString(n)

\* JobModel.formatJob(job) for a row that exists
FormatJob(id, job) ==
    [id |-> id, title |-> job.title, jobType |-> job.job_type,
     location |-> job.location, companyName |-> job.company_name,
     introduction |-> job.introduction,
     responsibilities |-> job.responsibilities,
     qualifications |-> job.qualifications, offers |-> job.offers,
     salary |-> job.salary,
     hiringMultipleCandidates |-> job.hiring_multiple_candidates,
     personalWebsiteTitle |-> job.personal_website_title,
     personalWebsiteUrl |-> job.personal_website_url,
     jobNiche |-> job.job_niche, newsLettersSent |-> job.newsletters_sent,
     jobPostedOn |-> job.job_posted_on, postedBy |-> job.posted_by,
     createdAt |-> job.created_at, updatedAt |-> job.updated_at]

\* a || "No"
OrNo(x) == IF Falsy(Js(x)) THEN "No" ELSE x

\* JobModel.create(jobData): the row INSERT INTO jobs would store
JobCreateRow(jobData) ==
    [title |-> jobData.title, job_type |-> jobData.jobType,
     location |-> jobData.location, company_name |-> jobData.companyName,
     introduction |-> OrNull(jobData.introduction),
     responsibilities |-> jobData.responsibilities,
     qualifications |-> jobData.qualifications,
     offers |-> OrNull(jobData.offers), salary |-> jobData.salary,
     hiring_multiple_candidates |-> OrNo(jobData.hiringMultipleCandidates),
     personal_website_title |-> OrNull(jobData.personalWebsiteTitle),
     personal_website_url |-> OrNull(jobData.personalWebsiteUrl),
     job_niche |-> jobData.jobNiche, newsletters_sent |-> "false",
     job_posted_on |-> now, posted_by |-> jobData.postedBy,
     created_at |-> now, updated_at |-> now]

\* JobModel.create(jobData): [ok, code, id, rows]
JobCreate(jobData) ==
    LET row == JobCreateRow(jobData)
        code == JobsViolation(row)
        id == JobKey(jobSeq + 1)
    IN IF code # ""
       THEN [ok |-> FALSE, code |-> code, id |-> NULL, rows |-> jobs]
       ELSE [ok |-> TRUE, code |-> "", id |-> id,
             rows |-> [j \in DOMAIN jobs \cup {id} |->
                          IF j = id THEN row ELSE jobs[j]]]

\* variant of MayPost that lets every role post
MayPostAnyRole(user) == TRUE

\* req.user.role !== "Employer" is false
MayPost(user) == user.role = "Employer"

\* postJob behind isAuthenticated
PostJobHandler(token, fault, body) ==
    LET auth == IsAuthenticated(token, fault)
        js == [k \in DOMAIN body |-> Js(body[k])]
        validationErrors ==
            ValidateJobData(
                [k \in {"title", "jobType", "location", "companyName",
                        "responsibilities", "qualifications", "salary",
                        "jobNiche"} |-> js[k]]
                @@ [postedBy |-> Js(auth.user.id)])
        jobData == [k \in DOMAIN body \cup {"postedBy"} |->
                       IF k = "postedBy" THEN auth.user.id ELSE body[k]]
        created == JobCreate(jobData)
        reject(message) ==
            Unchanged(Passed("postJob", ErrorHandler(message, 400),
                             NotRaised))
    IN IF ~auth.ok
       THEN Unchanged(Passed("postJob", auth.error, auth.raised))
       ELSE IF \E k \in {"title", "jobType", "location", "companyName",
                         "responsibilities", "qualifications", "salary",
                         "jobNiche"} : Falsy(js[k])
       THEN reject("Please provide full job details.")
       ELSE IF ~MayPost(auth.user)
       THEN reject("Only employers can post jobs.")
       ELSE IF validationErrors.threw
       THEN Unchanged(Thrown("postJob", PlainError(validationErrors.message)))
       ELSE IF Len(validationErrors.errors) > 0
       THEN reject(Join(validationErrors.errors))
       ELSE IF fault = "controller"
       THEN Unchanged(Thrown("postJob", TransportError))
       ELSE IF ~created.ok
       THEN Unchanged(Thrown("postJob",
               PgError(created.code, ViolationMessage(created.code))))
       ELSE Outcome(
               Json("postJob", 201,
                    [success |-> "true",
                     message |-> "Job posted successfully.",
                     job |-> FormatJob(created.id, created.rows[created.id])]),
               users, created.rows)

\* job.postedBy !== req.user.id is false
IsOwner(job, user) == job.posted_by = user.id

\* deleteJob behind isAuthenticated
DeleteJobHandler(token, fault, id) ==
    LET auth == IsAuthenticated(token, fault)
    IN IF ~auth.ok
       THEN Unchanged(Passed("deleteJob", auth.error, auth.raised))
       ELSE IF fault = "controller"
       THEN Unchanged(Thrown("deleteJob", TransportError))
       ELSE IF id \notin DOMAIN jobs
       THEN Unchanged(Passed("deleteJob", ErrorHandler("Job not found.", 404),
                             NotRaised))
       ELSE IF ~IsOwner(jobs[id], auth.user)
       THEN Unchanged(Passed("deleteJob",
               ErrorHandler("You are not authorized to delete this job.",
                            403), NotRaised))
       ELSE Outcome(
               Json("deleteJob", 200,
                    [success |-> "true",
                     message |-> "Job deleted successfully."]),
               users, [j \in DOMAIN jobs \ {id} |-> jobs[j]])


(* ------------------------------------------------------------------ *)
(* The requests a client can send                                      *)
(* ------------------------------------------------------------------ *)
\* role and niches of a registration
RegisterRoles ==
    {[role |-> "Job Seeker", firstNiche |-> "IT", secondNiche |-> "Law",
      thirdNiche |-> "Dev"],
     [role |-> "Job Seeker", firstNiche |-> "IT", secondNiche |-> "Law",
      thirdNiche |-> ""],
     [role |-> "Employer", firstNiche |-> UNDEF, secondNiche |-> UNDEF,
      thirdNiche |-> UNDEF],
     [role |-> "Employer", firstNiche |-> "IT", secondNiche |-> UNDEF,
      thirdNiche |-> UNDEF],
     [role |-> "Admin", firstNiche |-> "IT", secondNiche |-> "Law",
      thirdNiche |-> "Dev"]}

RegisterBodies ==
    {[name |-> "Ann", email |-> e, phone |-> "9876543210",
      address |-> "Main St", password |-> "secret12", role |-> r.role,
      firstNiche |-> r.firstNiche, secondNiche |-> r.secondNiche,
      thirdNiche |-> r.thirdNiche, coverLetter |-> UNDEF] :
        e \in {"a@x.co", "c@x.co", "b@x.c"}, r \in RegisterRoles}

LoginBodies ==
    [role : {"Job Seeker", "Employer"}, email : {"a@x.co", "b@x.co"},
     password : {"secret12", "newpass12"}]

ProfileNiches ==
    {[firstNiche |-> UNDEF, secondNiche |-> UNDEF, thirdNiche |-> UNDEF],
     [firstNiche |-> "Law", secondNiche |-> UNDEF, thirdNiche |-> UNDEF],
     [firstNiche |-> "Law", secondNiche |-> "IT", thirdNiche |-> "Dev"]}

ProfileBodies ==
    {[name |-> UNDEF, email |-> e, phone |-> UNDEF, address |-> UNDEF,
      coverLetter |-> UNDEF, firstNiche |-> ns.firstNiche,
      secondNiche |-> ns.secondNiche, thirdNiche |-> ns.thirdNiche] :
        e \in {UNDEF, "b@x.co"}, ns \in ProfileNiches}

PasswordBodies ==
    [oldPassword : {"secret12", "short", UNDEF}, newPassword : {"newpass12"}]

JobBodies ==
    [title : {"Dev"}, jobType : {"Full-time", "x"},
     location : {"Main St"}, companyName : {"Acme"},
     introduction : {UNDEF}, responsibilities : {"x"},
     qualifications : {"x"}, offers : {UNDEF}, salary : {"12345"},
     hiringMultipleCandidates : {UNDEF}, personalWebsiteTitle : {UNDEF},
     personalWebsiteUrl : {UNDEF}, jobNiche : {"IT", UNDEF}]

\* the storage calls the transport may fail in this request
Faults == IF faults < MaxFaults THEN FaultPoints ELSE {"none"}

\* one request served from its arrival to its response; token is the cookie
\* it carried and target the id in its path
Serve(token, target, out) ==
    /\ httpCount < MaxHttp
    /\ httpCount' = httpCount + 1
    /\ response' = [op |-> out.response.op, status |-> out.response.status,
                    body |-> out.response.body,
                    raised |-> out.response.raised, token |-> token,
                    target |-> target]
    /\ users' = out.users
    /\ jobs' = out.jobs
    /\ jobSeq' = IF DOMAIN out.jobs \subseteq DOMAIN jobs THEN jobSeq
                 ELSE jobSeq + 1
    /\ faults' = IF out.response.raised = TransportError THEN faults + 1
                 ELSE faults
    /\ UNCHANGED <<now, ticks, runs, appVars, valVars, dbVars, poolVars>>

RegisterRequest ==
    \E body \in RegisterBodies, fault \in Faults \ {"auth"} :
        \E out \in {Register(body, fault)} : Serve("none", NULL, out)

LoginRequest ==
    \E body \in LoginBodies, fault \in Faults \ {"auth"} :
        \E out \in {Login(body, fault)} : Serve("none", NULL, out)

GetUserRequest ==
    \E token \in Tokens, fault \in Faults :
        \E out \in {GetUser(token, fault)} :
            Serve(token, NULL, out)

UpdateProfileRequest ==
    \E token \in Tokens, fault \in Faults, body \in ProfileBodies :
        \E out \in {UpdateProfile(token, fault, body)} :
            Serve(token, NULL, out)

UpdatePasswordRequest ==
    \E token \in Tokens, fault \in Faults, body \in PasswordBodies :
        \E out \in {UpdatePassword(token, fault, body)} :
            Serve(token, NULL, out)

PostJobRequest ==
    \E token \in Tokens, fault \in Faults, body \in JobBodies :
        \E out \in {PostJobHandler(token, fault, body)} :
            Serve(token, NULL, out)

DeleteJobRequest ==
    \E token \in Tokens, fault \in Faults,
       id \in {JobKey(1), JobKey(2)} :
        \E out \in {DeleteJobHandler(token, fault, id)} :
            Serve(token, id, out)

\* the users table before the first request: empty, or holding a Job Seeker
\* and an Employer that registered earlier
StoredUsers ==
    {<<>>, [u \in {"n1", "n2"} |-> IF u = "n1" THEN SeekerRow ELSE EmployerRow]}

UserInit ==
    /\ users \in StoredUsers
    /\ jobs = <<>>
    /\ jobSeq = 0
    /\ now = 0
    /\ ticks = 0
    /\ faults = 0
    /\ runs = [r \in RunIds |-> IdleRun]
    /\ AppVarsInit
    /\ ValVarsInit
    /\ HttpVarsInit
    /\ DbVarsInit

UserNext ==
    \/ RegisterRequest
    \/ LoginRequest
    \/ GetUserRequest
    \/ UpdateProfileRequest
    \/ UpdatePasswordRequest
    \/ PostJobRequest
    \/ DeleteJobRequest

UserSpec == UserInit /\ [][UserNext]_vars


(* ------------------------------------------------------------------ *)
(* C12                                                                 *)
(* ------------------------------------------------------------------ *)
StoredPasswords == {users[u].password : u \in DOMAIN users}

UserRoutes ==
    {"register", "login", "getUser", "updateProfile", "updatePassword"}

\* the texts a response body carries, those of its user object included
BodyTexts(body) ==
    {body[f] : f \in DOMAIN body \ {"user", "job"}}
    \cup IF "user" \in DOMAIN body
         THEN {body.user[f] : f \in DOMAIN body.user}
         ELSE {}

C13_ConsistentClassification ==
    response.raised # NotRaised =>
        /\ response.status = ErrorMiddleware(response.raised).status
        /\ response.body.message = ErrorMiddleware(response.raised).message

(* ------------------------------------------------------------------ *)
(* C19                                                                 *)
(* ------------------------------------------------------------------ *)
NicheColumns == {"first_niche", "second_niche", "third_niche"}

\* C19: after any sequence of register and updateProfile requests every
\* stored Employer has its three niches null and every stored Job Seeker
\* has its three niches non-null
C19_NicheInvariant ==
    \A u \in DOMAIN users :
        /\ users[u].role = "Employer" =>
              \A c \in NicheColumns : users[u][c] = NULL
        /\ users[u].role = "Job Seeker" =>
              \A c \in NicheColumns : users[u][c] # NULL

(* ------------------------------------------------------------------ *)
(* C20                                                                 *)
(* ------------------------------------------------------------------ *)
OwnedByEmployer ==
    \A j \in DOMAIN jobs :
        /\ jobs[j].posted_by \in DOMAIN users
        /\ users[jobs[j].posted_by].role = "Employer"

C20Step ==
    httpCount' = httpCount + 1 =>
        /\ response'.op = "postJob"
              /\ (response'.token \notin DOMAIN users
                    \/ users[response'.token].role # "Employer")
              => response'.status >= 400 /\ jobs' = jobs
        /\ \A j \in DOMAIN jobs' \ DOMAIN jobs :
              /\ response'.op = "postJob"
              /\ response'.status = 201
              /\ jobs'[j].posted_by = response'.token
        /\ \A j \in DOMAIN jobs \ DOMAIN jobs' :
              /\ response'.op = "deleteJob"
              /\ response'.target = j
              /\ response'.token = jobs[j].posted_by
        /\ \A j \in DOMAIN jobs \cap DOMAIN jobs' : jobs'[j] = jobs[j]

\* C20: after any sequence of register, postJob and deleteJob requests every
\* stored job is posted by an existing user of role Employer; a postJob by a
\* non-Employer is rejected and inserts nothing, and deleteJob removes a job
\* only when the requester is the user that posted it
C20_JobOwnership == []OwnedByEmployer /\ [][C20Step]_vars

C20_Witness ==
    /\ response.op = "deleteJob"
    /\ response.status = 403
    /\ response.target \in DOMAIN jobs
    /\ response.token \in DOMAIN users
    /\ jobs[response.target].posted_by # response.token
    /\ OwnedByEmployer

(* ------------------------------------------------------------------ *)
(* findAll of UserModel and JobModel                                   *)
(* ------------------------------------------------------------------ *)
\* the lower-case form of a character, as ILIKE compares
Lower(c) ==
    CASE c = "A" -> "a" [] c = "D" -> "d" [] c = "I" -> "i"
      [] c = "L" -> "l" [] c = "M" -> "m" [] c = "S" -> "s"
      [] c = "T" -> "t" [] c = "X" -> "x" [] OTHER -> c

RECURSIVE LikeMatch(_, _)
\* s ILIKE p: % matches any run of characters, _ any one character
LikeMatch(s, p) ==
    IF p = <<>> THEN s = <<>>
    ELSE IF Head(p) = "%"
    THEN LikeMatch(s, Tail(p)) \/ (s # <<>> /\ LikeMatch(Tail(s), p))
    ELSE /\ s # <<>>
         /\ Head(p) = "_" \/ Lower(Head(s)) = Lower(Head(p))
         /\ LikeMatch(Tail(s), Tail(p))

\* <column> ILIKE '%<text>%'
ILikeContains(column, text) ==
    /\ column # NULL
    /\ LikeMatch(Literal(column), <<"%">> \o Literal(text) \o <<"%">>)

\* LIMIT and OFFSET of the ordered rows; 0 is the value of a limit or an
\* offset that the filters do not carry, which the code tests like 0
Page(rows, limit, offset) ==
    SubSeq(rows, offset + 1,
           IF limit = 0 \/ offset + limit > Len(rows) THEN Len(rows)
           ELSE offset + limit)

\* variant of UserWhere that drops the role condition
UserWhereAnyRole(user, filters) ==
    Falsy(Js(filters.email)) \/ ILikeContains(user.email, filters.email)

\* the WHERE clause UserModel.findAll builds
UserWhere(user, filters) ==
    /\ Falsy(Js(filters.role)) \/ user.role = filters.role
    /\ Falsy(Js(filters.email)) \/ ILikeContains(user.email, filters.email)

\* the ids of the rows UserModel.findAll may return, in their order
UserFindAll(filters) ==
    {Page(s, filters.limit, filters.offset) :
        s \in OrderByDesc({u \in DOMAIN users : UserWhere(users[u], filters)},
                          [u \in DOMAIN users |-> users[u].created_at])}

\* the WHERE clause JobModel.findAll builds
JobWhere(job, filters) ==
    /\ Falsy(Js(filters.jobNiche)) \/ job.job_niche = filters.jobNiche
    /\ Falsy(Js(filters.jobType)) \/ job.job_type = filters.jobType
    /\ Falsy(Js(filters.location))
          \/ ILikeContains(job.location, filters.location)
    /\ Falsy(Js(filters.companyName))
          \/ ILikeContains(job.company_name, filters.companyName)
    /\ Falsy(Js(filters.postedBy)) \/ job.posted_by = filters.postedBy
    /\ \/ Falsy(Js(filters.search))
       \/ ILikeContains(job.title, filters.search)
       \/ ILikeContains(job.company_name, filters.search)
       \/ ILikeContains(job.job_niche, filters.search)

\* the ids of the rows JobModel.findAll may return, in their order
JobFindAll(filters) ==
    {Page(s, filters.limit, filters.offset) :
        s \in OrderByDesc({j \in DOMAIN jobs :
                              /\ jobs[j].posted_by \in DOMAIN users
                              /\ JobWhere(jobs[j], filters)},
                          [j \in DOMAIN jobs |-> jobs[j].created_at])}

ListUsers ==
    [u \in {"n1", "n2", "n3"} |->
        CASE u = "n1" -> [SeekerRow EXCEPT !.created_at = 1]
          [] u = "n2" -> [EmployerRow EXCEPT !.created_at = 2]
          [] u = "n3" -> [EmployerRow EXCEPT !.email = "c@x.co",
                                             !.created_at = 2]]

ListJobs ==
    [j \in {"j1", "j2", "j3"} |->
        CASE j = "j1" -> [JobRow("n2") EXCEPT !.created_at = 1]
          [] j = "j2" -> [JobRow("n3") EXCEPT !.title = "Law",
                                              !.job_niche = "Law",
                                              !.location = "x",
                                              !.created_at = 2]
          [] j = "j3" -> [JobRow("n2") EXCEPT !.company_name = "Al",
                                              !.job_type = "Part-time",
                                              !.created_at = 2]]

UserFilters ==
    [role : {UNDEF, "", "Employer", "Job Seeker"},
     email : {UNDEF, "", "x.co", "A@X", "c@"},
     limit : 0..2, offset : 0..1]

JobFilters ==
    [jobNiche : {UNDEF, "Law"}, jobType : {UNDEF, "Part-time"},
     location : {UNDEF, "main"}, companyName : {UNDEF, "", "Al"},
     postedBy : {UNDEF, "n2"}, search : {UNDEF, "law"},
     limit : 0..2, offset : 0..1]

ListInputs ==
    {[model |-> "user", filters |-> f] : f \in UserFilters}
        \cup {[model |-> "job", filters |-> f] : f \in JobFilters}

CallFindAll ==
    /\ valKind = "list"
    /\ valPc = "input"
    /\ \E rows \in (IF valInput.model = "user"
                    THEN UserFindAll(valInput.filters)
                    ELSE JobFindAll(valInput.filters)) :
           valResult' = [threw |-> FALSE, rows |-> rows]
    /\ valPc' = "returned"
    /\ UNCHANGED <<valKind, valInput, newsVars, appVars, httpVars, dbVars, poolVars>>

ListInit ==
    /\ users = ListUsers
    /\ jobs = ListJobs
    /\ applications = [a \in {} |-> ApplicationRow]
    /\ jobSeq = 3
    /\ appSeq = 0
    /\ now = 3
    /\ ticks = 0
    /\ faults = 0
    /\ runs = [r \in RunIds |-> IdleRun]
    /\ reqs = [p \in ReqSlots |-> IdleReq]
    /\ reqCount = 0
    /\ valKind = "list"
    /\ valInput \in ListInputs
    /\ valPc = "input"
    /\ valResult = NotCalled
    /\ HttpVarsInit
    /\ DbVarsInit

ListNext == CallFindAll

ListSpec == ListInit /\ [][ListNext]_vars

(* ------------------------------------------------------------------ *)
(* C21                                                                 *)
(* ------------------------------------------------------------------ *)
\* the text occurs in the column, letter case apart
Contains(column, text) ==
    \E i \in 0..(Len(Literal(column)) - Len(Literal(text))) :
        \A k \in 1..Len(Literal(text)) :
            Lower(Literal(column)[i + k]) = Lower(Literal(text)[k])

\* the filter carries a value for the key (a non-empty text)
Supplied(filters, key) == filters[key] \notin {UNDEF, ""}

\* the rows of the listed table that satisfy every supplied filter
C21Satisfying ==
    LET f == valInput.filters
    IN  IF valInput.model = "user"
        THEN {u \in DOMAIN users :
                /\ Supplied(f, "role") => users[u].role = f.role
                /\ Supplied(f, "email") => Contains(users[u].email, f.email)}
        ELSE {j \in DOMAIN jobs :
                /\ Supplied(f, "jobNiche") => jobs[j].job_niche = f.jobNiche
                /\ Supplied(f, "jobType") => jobs[j].job_type = f.jobType
                /\ Supplied(f, "location")
                      => Contains(jobs[j].location, f.location)
                /\ Supplied(f, "companyName")
                      => Contains(jobs[j].company_name, f.companyName)
                /\ Supplied(f, "postedBy") => jobs[j].posted_by = f.postedBy
                /\ Supplied(f, "search")
                      => \/ Contains(jobs[j].title, f.search)
                         \/ Contains(jobs[j].company_name, f.search)
                         \/ Contains(jobs[j].job_niche, f.search)}

C21CreatedAt(id) ==
    IF valInput.model = "user" THEN users[id].created_at
    ELSE jobs[id].created_at

\* C21: findAll(filters), for filter values of the columns' types and free
\* of pattern characters, returns each row that satisfies every supplied
\* filter once and no other row, newest first; a filter that is not
\* supplied adds no condition, so findAll({}) returns every row, and
\* UserModel.findAll({role: 'Employer'}) returns Employer rows only.  With a
\* limit or an offset the list is that page of the same ordered rows.
C21_ListFiltering ==
    (valKind = "list" /\ valPc = "returned") =>
        LET f == valInput.filters
            rows == valResult.rows
            rest == IF Cardinality(C21Satisfying) > f.offset
                    THEN Cardinality(C21Satisfying) - f.offset ELSE 0
        IN  /\ ~valResult.threw
            /\ Range(rows) \subseteq C21Satisfying
            /\ \A a, b \in DOMAIN rows :
                   a < b => /\ rows[a] # rows[b]
                            /\ C21CreatedAt(rows[a]) >= C21CreatedAt(rows[b])
            /\ Len(rows) = IF f.limit = 0 \/ f.limit > rest THEN rest
                           ELSE f.limit
            /\ \A x \in C21Satisfying \ Range(rows), y \in Range(rows) :
                   C21CreatedAt(x) > C21CreatedAt(y) => f.offset > 0
            /\ \A x \in C21Satisfying \ Range(rows), y \in Range(rows) :
                   C21CreatedAt(x) < C21CreatedAt(y) => f.limit > 0
            /\ (f.limit = 0 /\ f.offset = 0) => Range(rows) = C21Satisfying
            /\ (valInput.model = "user" /\ f.role = "Employer")
                  => \A i \in DOMAIN rows : users[rows[i]].role = "Employer"

\* the two employers, created at the same instant, listed by role without
\* a page, the seeker left out
C21_Witness ==
    /\ valKind = "list" /\ valPc = "returned"
    /\ valInput.model = "user"
    /\ valInput.filters.role = "Employer"
    /\ valInput.filters.limit = 0 /\ valInput.filters.offset = 0
    /\ valResult.rows = <<"n3", "n2">>

(* ------------------------------------------------------------------ *)
(* C22                                                                 *)
(* ------------------------------------------------------------------ *)
\* C22: within one newsletter run the sent-flags of the processed postings
\* are set by one statement that covers all of them: the step of a run that
\* sets a flag is the only such step of the run (no flag of the run was set
\* or attempted before it) and it marks every posting the run processed.
C22_BatchedMarking ==
    [][\A r \in RunIds :
          runs'[r].marked # runs[r].marked =>
              /\ runs[r].marked = {}
              /\ runs[r].updateFailed = {}
              /\ runs'[r].pc = "done"]_vars

(* ------------------------------------------------------------------ *)
(* getConnectionPool, executeQuery and executeTransaction              *)
(* ------------------------------------------------------------------ *)
PoolMax == 2
MaxPools == 2       \* pools created by getConnectionPool in one behaviour
MaxCalls == 3       \* calls of executeQuery and executeTransaction

PoolRest ==
    <<users, jobs, jobSeq, now, ticks, runs, appVars, valVars, httpVars,
      dbVars>>

\* a call that has not reached its first await
NewCall(kind) ==
    [kind |-> kind,      \* "query" or "transaction"
     pc |-> "start",
     target |-> 0,       \* the pool getConnectionPool is testing
     pool |-> 0,         \* const pool of the caller, 0 for null
     client |-> 0,       \* the pool of the client the caller holds, 0: none
     acquired |-> 0,     \* clients the caller obtained from pool.connect()
     released |-> 0,     \* calls of client.release() by the caller
     broken |-> FALSE,   \* the client's connection is lost
     txOpen |-> FALSE,   \* a transaction is open on the client's connection
     log |-> <<>>,       \* statements the caller sent through the client
     threw |-> ""]       \* what the call threw, "" when it returned

\* pool.connect() can resolve: an idle client, or room for a new connection
CanConnect(p) ==
    pools[p].idle > 0 \/ pools[p].busy + pools[p].idle < PoolMax

\* pool.connect() resolved
Checkout(ps, p) ==
    IF ps[p].idle > 0
    THEN [ps EXCEPT ![p].idle = @ - 1, ![p].busy = @ + 1]
    ELSE [ps EXCEPT ![p].busy = @ + 1]

\* client.release(): the connection goes back to the pool, or is closed
\* when it was lost
ReleaseClient(ps, p, broken) ==
    IF broken THEN [ps EXCEPT ![p].busy = @ - 1]
    ELSE [ps EXCEPT ![p].busy = @ - 1, ![p].idle = @ + 1]

\* a call to storage fails (refused, timed out, connection lost)
Fails == faults < MaxFaults /\ faults' = faults + 1

\* cachedPool = new Pool({max: 2, ...}); cachedPool.connect()
CreatePool(c, call) ==
    /\ Len(pools) < MaxPools
    /\ pools' = Append(pools, [busy |-> 0, idle |-> 0])
    /\ cachedPool' = Len(pools) + 1
    /\ calls' = [k \in 1..(IF c > Len(calls) THEN c ELSE Len(calls)) |->
                    IF k = c
                    THEN [call EXCEPT !.pc = "testConnect",
                                      !.target = Len(pools) + 1]
                    ELSE calls[k]]

\* return cachedPool; then the caller's pool.connect(), which throws a
\* TypeError when the variable holds null by now
ReturnCachedPool(c, ps) ==
    /\ pools' = ps
    /\ cachedPool' = cachedPool
    /\ calls' = [calls EXCEPT ![c] =
           IF cachedPool = 0
           THEN [@ EXCEPT !.pc = "done", !.threw = "TypeError"]
           ELSE [@ EXCEPT !.pc = "connect", !.pool = cachedPool]]

\* executeQuery or executeTransaction is called: getConnectionPool runs to
\* its first await
StartCall(kind) ==
    /\ Len(calls) < MaxCalls
    /\ IF cachedPool # 0
       THEN /\ calls' = Append(calls, [NewCall(kind) EXCEPT
                                          !.pc = "probeConnect",
                                          !.target = cachedPool])
            /\ UNCHANGED <<cachedPool, pools>>
       ELSE CreatePool(Len(calls) + 1, NewCall(kind))
    /\ UNCHANGED <<faults, PoolRest>>

\* await cachedPool.connect() of the health probe
ProbeConnect(c) ==
    /\ calls[c].pc = "probeConnect"
    /\ \/ /\ CanConnect(calls[c].target)
          /\ pools' = Checkout(pools, calls[c].target)
          /\ calls' = [calls EXCEPT ![c].pc = "probeQuery"]
          /\ UNCHANGED <<cachedPool, faults>>
       \/ /\ Fails
          /\ CreatePool(c, calls[c])
    /\ UNCHANGED PoolRest

\* await client.query("SELECT NOW()") of the health probe, client.release()
ProbeQuery(c) ==
    /\ calls[c].pc = "probeQuery"
    /\ \/ /\ ReturnCachedPool(c, ReleaseClient(pools, calls[c].target, FALSE))
          /\ UNCHANGED faults
       \/ /\ Fails
          /\ CreatePool(c, calls[c])
    /\ UNCHANGED PoolRest

\* await cachedPool.connect() on the pool just created
TestConnect(c) ==
    /\ calls[c].pc = "testConnect"
    /\ \/ /\ CanConnect(calls[c].target)
          /\ pools' = Checkout(pools, calls[c].target)
          /\ calls' = [calls EXCEPT ![c].pc = "testQuery"]
          /\ UNCHANGED <<cachedPool, faults>>
       \/ /\ Fails
          /\ cachedPool' = 0
          /\ calls' = [calls EXCEPT ![c].pc = "done", ![c].threw = "connect"]
          /\ UNCHANGED pools
    /\ UNCHANGED PoolRest

\* await client.query("SELECT NOW()") on the pool just created
TestQuery(c) ==
    /\ calls[c].pc = "testQuery"
    /\ \/ /\ ReturnCachedPool(c, ReleaseClient(pools, calls[c].target, FALSE))
          /\ UNCHANGED faults
       \/ /\ Fails
          /\ cachedPool' = 0
          /\ calls' = [calls EXCEPT ![c].pc = "done", ![c].threw = "connect"]
          /\ UNCHANGED pools
    /\ UNCHANGED PoolRest

\* const client = await pool.connect()
Connect(c) ==
    /\ calls[c].pc = "connect"
    /\ \/ /\ CanConnect(calls[c].pool)
          /\ pools' = Checkout(pools, calls[c].pool)
          /\ calls' = [calls EXCEPT
                 ![c].pc = IF calls[c].kind = "query" THEN "query"
                           ELSE "BEGIN",
                 ![c].client = calls[c].pool,
                 ![c].acquired = @ + 1]
          /\ UNCHANGED faults
       \/ /\ Fails
          /\ calls' = [calls EXCEPT ![c].pc = "done", ![c].threw = "connect"]
          /\ UNCHANGED pools
    /\ UNCHANGED <<cachedPool, PoolRest>>

\* finally { client.release() }, after which the call is over
Finally(call) ==
    [call EXCEPT !.pc = "done", !.client = 0, !.released = @ + 1]

\* executeQuery: await client.query(query, params), then the finally block
Query(c) ==
    /\ calls[c].pc = "query"
    /\ \E outcome \in {"ok", "error", "lost"} :
        /\ IF outcome = "ok" THEN faults' = faults ELSE Fails
        /\ pools' = ReleaseClient(pools, calls[c].client, outcome = "lost")
        /\ calls' = [calls EXCEPT ![c] =
               Finally([@ EXCEPT !.log = Append(@, "query"),
                                 !.broken = outcome = "lost",
                                 !.threw = IF outcome = "ok" THEN ""
                                           ELSE "query"])]
    /\ UNCHANGED <<cachedPool, PoolRest>>

\* executeTransaction after BEGIN, transactionFn(client) or COMMIT settled:
\* the next statement of the try block, the return, or the catch block
AfterStatement(call, outcome) ==
    LET sent == [call EXCEPT !.log = Append(@, call.pc),
                             !.broken = outcome = "lost"]
    IN  IF outcome # "ok"
        THEN [sent EXCEPT !.pc = "ROLLBACK", !.threw = call.pc,
                          !.txOpen = call.pc = "fn" /\ outcome = "error"]
        ELSE CASE call.pc = "BEGIN" -> [sent EXCEPT !.pc = "fn",
                                                    !.txOpen = TRUE]
               [] call.pc = "fn" -> [sent EXCEPT !.pc = "COMMIT"]
               [] call.pc = "COMMIT" -> Finally([sent EXCEPT
                                                    !.txOpen = FALSE])

\* await client.query("BEGIN"), await transactionFn(client),
\* await client.query("COMMIT")
Statement(c) ==
    /\ calls[c].pc \in {"BEGIN", "fn", "COMMIT"}
    /\ \E outcome \in {"ok", "error", "lost"} :
        /\ IF outcome = "ok" THEN faults' = faults ELSE Fails
        /\ \E next \in {AfterStatement(calls[c], outcome)} :
            /\ calls' = [calls EXCEPT ![c] = next]
            /\ pools' = IF next.pc = "done"
                        THEN ReleaseClient(pools, calls[c].client, FALSE)
                        ELSE pools
    /\ UNCHANGED <<cachedPool, PoolRest>>

\* catch: await client.query("ROLLBACK"); throw error; then the finally
\* block.  ROLLBACK on a lost connection rejects, and its rejection leaves
\* the catch block in place of the caught error.
Rollback(c) ==
    /\ calls[c].pc = "ROLLBACK"
    /\ \E outcome \in {"ok", "lost"} :
        /\ calls[c].broken => outcome = "lost"
        /\ IF outcome = "ok" \/ calls[c].broken THEN faults' = faults
           ELSE Fails
        /\ pools' = ReleaseClient(pools, calls[c].client, outcome = "lost")
        /\ calls' = [calls EXCEPT ![c] =
               Finally([@ EXCEPT !.log = Append(@, "ROLLBACK"),
                                 !.broken = outcome = "lost",
                                 !.txOpen = FALSE,
                                 !.threw = IF outcome = "ok" THEN @
                                           ELSE "ROLLBACK"])]
    /\ UNCHANGED <<cachedPool, PoolRest>>

\* idleTimeoutMillis: the pool closes a connection that stayed idle
IdleTimeout(p) ==
    /\ pools[p].idle > 0
    /\ pools' = [pools EXCEPT ![p].idle = @ - 1]
    /\ UNCHANGED <<cachedPool, calls, faults, PoolRest>>

PoolInit ==
    NewsVarsInit /\ AppVarsInit /\ ValVarsInit /\ HttpVarsInit /\ DbVarsInit

PoolNext ==
    \/ \E kind \in {"query", "transaction"} : StartCall(kind)
    \/ \E c \in DOMAIN calls : ProbeConnect(c)
    \/ \E c \in DOMAIN calls : ProbeQuery(c)
    \/ \E c \in DOMAIN calls : TestConnect(c)
    \/ \E c \in DOMAIN calls : TestQuery(c)
    \/ \E c \in DOMAIN calls : Connect(c)
    \/ \E c \in DOMAIN calls : Query(c)
    \/ \E c \in DOMAIN calls : Statement(c)
    \/ \E c \in DOMAIN calls : Rollback(c)
    \/ \E p \in DOMAIN pools : IdleTimeout(p)

PoolSpec == PoolInit /\ [][PoolNext]_vars

(* ------------------------------------------------------------------ *)
(* C23                                                                 *)
(* ------------------------------------------------------------------ *)
\* the connections the process holds to storage
Connections(p) == pools[p].busy + pools[p].idle

RECURSIVE SumConnections(_)
SumConnections(n) ==
    IF n = 0 THEN 0 ELSE Connections(n) + SumConnections(n - 1)

\* C23: under every interleaving of executeQuery calls, at most one pool
\* holds connections at a time, the process holds at most 2 connections in
\* all, and a call that is over released each client it acquired once.
C23_BoundedSharedPool ==
    /\ Cardinality({p \in DOMAIN pools : Connections(p) > 0}) <= 1
    /\ SumConnections(Len(pools)) <= PoolMax
    /\ \A c \in DOMAIN calls :
           calls[c].pc = "done" =>
               calls[c].released = calls[c].acquired


(* ------------------------------------------------------------------ *)
(* C24                                                                 *)
(* ------------------------------------------------------------------ *)
\* the statements of a transaction that got as far as its n-th statement
TxPrefix(n) == SubSeq(<<"BEGIN", "fn", "COMMIT">>, 1, n)

\* C24: a call of executeTransaction that obtained a client and is over
\* sent BEGIN, ran the function and sent COMMIT when it returned; when it
\* threw, it sent ROLLBACK after the statement that failed and threw that
\* statement's error; either way it released the client once and left no
\* transaction open.
C24_TransactionWrapper ==
    \A c \in DOMAIN calls :
        (calls[c].kind = "transaction" /\ calls[c].pc = "done"
            /\ calls[c].acquired = 1) =>
            /\ calls[c].released = 1
            /\ ~calls[c].txOpen
            /\ IF calls[c].threw = ""
               THEN calls[c].log = TxPrefix(3)
               ELSE \E n \in 1..3 :
                       /\ calls[c].log = Append(TxPrefix(n), "ROLLBACK")
                       /\ calls[c].threw = TxPrefix(n)[n]


(* ------------------------------------------------------------------ *)
(* formatPhoneForDisplay and parseFormattedPhone                       *)
(* ------------------------------------------------------------------ *)
\* phone.toString()
PhoneToString(phone) ==
    IF phone.t = "string" THEN phone.s ELSE NumToString(phone)

FormatPhoneForDisplay(phone) ==
    LET phoneStr == PhoneToString(phone)
        n == Len(phoneStr)
    IN  IF n = 10
        THEN <<"(">> \o SubSeq(phoneStr, 1, 3) \o <<")", " ">>
                 \o SubSeq(phoneStr, 4, 6) \o <<"-">> \o SubSeq(phoneStr, 7, n)
        ELSE IF n = 11 /\ phoneStr[1] = "1"
        THEN <<"+", "1", " ", "(">> \o SubSeq(phoneStr, 2, 4) \o <<")", " ">>
                 \o SubSeq(phoneStr, 5, 7) \o <<"-">> \o SubSeq(phoneStr, 8, n)
        ELSE IF n >= 10
        THEN <<"+">> \o SubSeq(phoneStr, 1, n - 10) \o <<" ">>
                 \o SubSeq(phoneStr, n - 9, n - 6) \o <<" ">>
                 \o SubSeq(phoneStr, n - 5, n)
        ELSE phoneStr

\* formattedPhone.replace(/[^0-9]/g, ""), then convertPhoneToNumber
ParseFormattedPhone(formattedPhone) ==
    ConvertPhoneToNumber(
        Str(SelectSeq(formattedPhone, LAMBDA c : c \in DigitChars)))

\* phones of nine to twelve digits, each as a string and, when it does not
\* begin with 0, as a number
FormatInputs ==
    LET digits == {<<first, second>>
                       \o SubSeq(PhoneTail \o PhoneTail, 1, n - 2) :
                     first \in {"0", "1", "5", "6", "9"},
                     second \in {"0", "8"}, n \in 9..12}
    IN  {Str(d) : d \in digits}
            \cup {Num(FALSE, d) : d \in {e \in digits : e[1] # "0"}}

CallParseFormattedPhone ==
    /\ valKind = "format" /\ valPc = "input"
    /\ \E formatted \in {FormatPhoneForDisplay(valInput)} :
           valResult' = [formatted |-> formatted,
                         parsed |-> ParseFormattedPhone(formatted)]
    /\ valPc' = "returned"
    /\ UNCHANGED <<valKind, valInput, newsVars, appVars, httpVars, dbVars, poolVars>>

FormatInit ==
    /\ NewsVarsInit /\ AppVarsInit /\ HttpVarsInit /\ DbVarsInit
    /\ valKind = "format"
    /\ valInput \in FormatInputs
    /\ valPc = "input"
    /\ valResult = NotCalled

FormatNext == CallParseFormattedPhone

FormatSpec == FormatInit /\ [][FormatNext]_vars

(* ------------------------------------------------------------------ *)
(* C25                                                                 *)
(* ------------------------------------------------------------------ *)
\* C25: for a phone n of ten digits of which the first is 6 to 9,
\* parseFormattedPhone(formatPhoneForDisplay(n)) is the number n; for a
\* phone of eleven or more digits parseFormattedPhone throws on the
\* formatted string.
C25_PhoneRoundTrip ==
    (valKind = "format" /\ valPc = "returned") =>
        LET digits == PhoneToString(valInput)
        IN  /\ IndianMobile(digits)
                  => valResult.parsed = Return(Num(FALSE, digits))
            /\ Len(digits) >= 11 => valResult.parsed.threw


(* ------------------------------------------------------------------ *)
(* C26                                                                 *)
(* ------------------------------------------------------------------ *)
\* the successful sendEmail calls of all firings, by firing and position
C26Sent ==
    {<<r, i>> \in RunIds \X (1..(MaxJobs * Cardinality(DOMAIN users))) :
        i \in DOMAIN runs[r].log /\ runs[r].log[i].ok}

C26Fetched(r) == {runs[r].jobs[n].id : n \in DOMAIN runs[r].jobs}

\* C26: with firings that do not overlap, whatever sends, niche lookups or
\* flag updates fail, no subscriber is sent two notifications for the same
\* posting, and a firing that handles a posting the firing before it had
\* already handled sends nothing for it and does not change its flag.
C26_AtMostOneNotification ==
    /\ \A a, b \in C26Sent :
           (/\ runs[a[1]].log[a[2]].job = runs[b[1]].log[b[2]].job
            /\ runs[a[1]].log[a[2]].user = runs[b[1]].log[b[2]].user)
               => a = b
    /\ \A r \in RunIds, q \in RunIds :
           (q = r + 1 /\ runs[q].pc = "done") =>
               \A j \in C26Fetched(r) \cap C26Fetched(q) :
                   /\ j \notin runs[q].marked
                   /\ \A i \in DOMAIN runs[q].log : runs[q].log[i].job # j


(* ------------------------------------------------------------------ *)
(* C27                                                                 *)
(* ------------------------------------------------------------------ *)
C27TextFields ==
    {"firstNiche", "secondNiche", "thirdNiche", "resumePublicId",
     "resumeUrl", "coverLetter"}

\* C27: the user of a successful register, login, getUser or updateProfile
\* response, which is formatUserResponse applied to an object formatUser
\* produced, carries for the niches, the resume fields and the cover letter
\* the values formatUserResponse gives for the stored row, and carries its
\* createdAt and updatedAt.
C27_ResponseUserComplete ==
    (response.op \in UserRoutes /\ response.body.success = "true"
        /\ "user" \in DOMAIN response.body) =>
        LET sent == response.body.user
            row == FormatUserResponse(StoredUser(users, sent.id))
        IN  /\ \A f \in C27TextFields : sent[f] = row[f]
            /\ sent.createdAt # UNDEF
            /\ sent.updatedAt # UNDEF


(* ------------------------------------------------------------------ *)
(* C28                                                                 *)
(* ------------------------------------------------------------------ *)
\* C28: with requests served one after the other, findByJobSeeker(u) never
\* returns two applications of the same job.
C28_OneListedApplicationPerJob ==
    \A u \in DOMAIN users :
        \A a, b \in FindByJobSeeker(applications, u) :
            applications[a].jobId = applications[b].jobId => a = b

(* ------------------------------------------------------------------ *)
(* C29                                                                 *)
(* ------------------------------------------------------------------ *)
\* users of the application requests: two job seekers and two employers
AuthUsers ==
    [u \in {"u1", "u2", "e1", "e2"} |->
        IF u = "e2" THEN InitUsers["e1"] ELSE InitUsers[u]]

AuthInit ==
    /\ users = AuthUsers
    /\ jobs = AppJobs
    /\ jobSeq = 2
    /\ now = 0
    /\ ticks = 0
    /\ faults = 0
    /\ runs = [r \in RunIds |-> IdleRun]
    /\ AppVarsInit /\ ValVarsInit /\ HttpVarsInit /\ DbVarsInit

\* requests served one after the other, by any of the four users
AuthNext ==
    \/ \E p \in ReqSlots, u \in {"u1", "u2"}, j \in DOMAIN AppJobs :
            NoRequestInProgress /\ FirstFreeSlot(p)
                /\ PostApplicationBegin(p, u, j, CHOOSE b \in PostBodies :
                                                     b.phone = PhoneValid
                                                         /\ b.email = SomeEmail)
    \/ \E p \in ReqSlots : PostApplicationFindExisting(p)
    \/ \E p \in ReqSlots : PostApplicationCreate(p)
    \/ \E p \in ReqSlots, u \in DOMAIN AuthUsers, a \in AppTargets :
            NoRequestInProgress /\ FirstFreeSlot(p)
                /\ DeleteApplicationBegin(p, u, a)
    \/ \E p \in ReqSlots : DeleteApplicationUpdate(p)

AuthSpec == AuthInit /\ [][AuthNext]_vars

\* the requester of a deleteApplication is the party of the application
\* that its role names
C29Party(u, a) ==
    \/ users[u].role = "Job Seeker" /\ applications[a].jobSeekerUserId = u
    \/ users[u].role = "Employer" /\ applications[a].employerUserId = u

\* slot p receives a deleteApplication in this step
C29Received(p) ==
    /\ reqCount' = reqCount + 1
    /\ reqs'[p] # reqs[p]
    /\ reqs'[p].op = "delete"

C29Step ==
    /\ \A a \in DOMAIN applications :
           applications'[a] # applications[a] =>
               \E p \in ReqSlots :
                   /\ reqs[p].op = "delete" /\ reqs[p].target = a
                   /\ reqs'[p].pc = "done"
                   /\ C29Party(reqs[p].user, a)
    /\ \A p \in ReqSlots :
           C29Received(p) =>
               LET u == reqs'[p].user
                   a == reqs'[p].target
               IN  /\ applications' = applications
                   /\ a \notin DOMAIN applications =>
                          reqs'[p].pc = "done" /\ reqs'[p].status = 404
                   /\ (a \in DOMAIN applications /\ ~C29Party(u, a)) =>
                          reqs'[p].pc = "done" /\ reqs'[p].status = 403

\* C29: a step changes a stored application only as the answer to a
\* deleteApplication of its own job seeker or its own employer; a
\* deleteApplication by a job seeker or an employer who is not that party
\* is answered 403, one for an unknown id 404, and neither changes a row.
C29_DeleteAuthorization == [][C29Step]_vars

\* the other employer was refused the application of e1's job, which is
\* still listed for both of its parties
C29_Witness ==
    \E p \in ReqSlots :
        /\ reqs[p].op = "delete" /\ reqs[p].pc = "done"
        /\ reqs[p].user = "e2" /\ reqs[p].status = 403
        /\ reqs[p].target \in DOMAIN applications
        /\ ~applications[reqs[p].target].deletedByEmployer
        /\ ~applications[reqs[p].target].deletedByJobSeeker

(* ------------------------------------------------------------------ *)
(* C30                                                                 *)
(* ------------------------------------------------------------------ *)
C30Step ==
    \A p \in ReqSlots, u \in AppCallers, j \in AppJobTargets,
       body \in PostBodies :
        (/\ PostApplicationBegin(p, u, j, body)
         /\ ~Falsy(body.rest) /\ ~Falsy(body.email) /\ ~Falsy(body.phone)
         /\ TenDigitMobile(body.phone) = <<>>) =>
            /\ reqs'[p].pc = "done"
            /\ reqs'[p].status = 400
            /\ reqs'[p].message =
                   "Please provide a valid phone number (10-15 digits)."
            /\ applications' = applications

\* C30: a postApplication whose phone is not a valid number, its other
\* fields present, is answered 400 with the 'valid phone number' message and
\* inserts no application.
C30_InvalidPhoneIs400 == [][C30Step]_vars
====
